---- MODULE Spec2Model ----
(***************************************************************************)
(* A model of discordplex: the VoiceSession orchestrator                   *)
(* (bridge/session.py), the PersonaPlexClient (personaplex/client.py), the *)
(* wire protocol (personaplex/protocol.py), the queue adapters             *)
(* (audio/sink.py, audio/source.py) and the voice-state handler of the bot *)
(* (bot/client.py).                                                        *)
(*                                                                         *)
(* Strings of the program are sequences of code points, byte strings are   *)
(* sequences of numbers 0..255.  One caller drives one VoiceSession        *)
(* through start() and stop(); pc is the caller's position in the call     *)
(* chain start -> connect -> close / stop -> close, stack the labels to    *)
(* return to.  The asyncio tasks (three session loops, the client's        *)
(* receive loop) have a status each and take their steps between the       *)
(* caller's awaits.                                                        *)
(***************************************************************************)
EXTENDS Integers, Sequences, FiniteSets, TLC

----------------------------------------------------------------------------
(* Bounds of the model *)

\* how many times the caller calls start() in one behaviour
MaxStarts == 2
\* how many messages the remote peer sends after the handshake
MaxInbound == 2

\* calls of send_audio a driver of the client makes in one behaviour
MaxSends == 2
\* bytes in a message given to decode_message or a payload to encode_audio
MaxMessageLen == 3
\* calls of personaplex_to_discord on one converter
MaxCalls == 4
\* failures inside the converter in one behaviour
MaxConvertErrors == 2
\* frames the capture thread writes in one behaviour
MaxWrites == 3
\* Queue capacities, scaled down: the program's are 50 (input_queue and
\* output_queue, session.py:55-56), 100 (audio_queue, client.py:27) and 50
\* (text_queue, client.py:28)
InputQueueMaxsize == 2
OutputQueueMaxsize == 2
AudioQueueMaxsize == 2
TextQueueMaxsize == 2

(* Program constants *)

\* asyncio.wait_for(self.ws.receive(), timeout=60)
HANDSHAKE_TIMEOUT == 60
\* len(self._text_buffer) >= 50
TEXT_FLUSH_LEN == 50

\* MessageType
HANDSHAKE == 0
AUDIO == 1
TEXT == 2

\* the ASCII characters str.isspace() and str.strip() take for whitespace
Whitespace == {9, 10, 11, 12, 13, 32}

\* the text fragments "a" and " " as UTF-8 bytes
BytesA == <<97>>
BytesSpace == <<32>>
\* "hello" and "hello "
BytesHello == <<104, 101, 108, 108, 111>>
BytesHelloSpace == <<104, 101, 108, 108, 111, 32>>

\* converter.py:19 and :17, one playback frame is 960 * 2 int16 samples
DISCORD_FRAME_SAMPLES == 960
DISCORD_CHANNELS == 2
\* SILENCE_FRAME of session.py:18, as a frame identity (captured and decoded
\* frames are numbered from 1)
SILENCE_FRAME == 0

----------------------------------------------------------------------------
(* Pure helpers *)

\* str.isspace(): at least one character and all of them whitespace
isspace(text) == Len(text) > 0 /\ \A i \in 1..Len(text) : text[i] \in Whitespace

RECURSIVE lstrip(_)
lstrip(text) ==
    IF Len(text) > 0 /\ Head(text) \in Whitespace THEN lstrip(Tail(text)) ELSE text

RECURSIVE rstrip(_)
rstrip(text) ==
    IF Len(text) > 0 /\ text[Len(text)] \in Whitespace
    THEN rstrip(SubSeq(text, 1, Len(text) - 1))
    ELSE text

\* str.strip()
strip(text) == rstrip(lstrip(text))

\* (mutant) the payload loses its first byte
decode_message_Short(data) ==
    IF Len(data) = 0 THEN [ok |-> FALSE, type |-> 0, payload |-> <<>>]
    ELSE IF data[1] \notin {HANDSHAKE, AUDIO, TEXT}
         THEN [ok |-> FALSE, type |-> 0, payload |-> <<>>]
         ELSE [ok |-> TRUE, type |-> data[1],
               payload |-> IF Len(data) > 2 THEN Tail(Tail(data)) ELSE <<>>]

\* protocol.decode_message: ValueError on an empty message and on a first
\* byte that is no MessageType; else (type, payload)
decode_message(data) ==
    IF Len(data) = 0 THEN [ok |-> FALSE, type |-> 0, payload |-> <<>>]
    ELSE IF data[1] \notin {HANDSHAKE, AUDIO, TEXT}
         THEN [ok |-> FALSE, type |-> 0, payload |-> <<>>]
         ELSE [ok |-> TRUE, type |-> data[1],
               payload |-> IF Len(data) > 1 THEN Tail(data) ELSE <<>>]

\* (mutant) an empty payload is sent with no tag
encode_audio_BareEmpty(opus_bytes) ==
    IF opus_bytes = <<>> THEN <<>> ELSE <<AUDIO>> \o opus_bytes

\* protocol.encode_audio
encode_audio(opus_bytes) == <<AUDIO>> \o opus_bytes

\* payload.decode("utf-8") on the bytes the model sends: a byte below 0x80
\* is the code point of the same value, 0xFF is never valid UTF-8
utf8_decode(payload) ==
    IF \E i \in 1..Len(payload) : payload[i] >= 128
    THEN [ok |-> FALSE, text |-> <<>>]
    ELSE [ok |-> TRUE, text |-> payload]

----------------------------------------------------------------------------
VARIABLES
    \* the caller and the call chain
    pc,             \* label of the next step of the call in progress, or "idle"
    stack,          \* labels to return to, innermost first
    call,           \* the API call in progress or last completed:
                    \* none / start / stop / stop_again
    raised,         \* what the last completed call raised ("ok": nothing, "": pending)
    start_error,    \* the exception caught at `except Exception as e` of start()
    starts,         \* number of start() calls so far
    stop_completed, \* some stop() called by the caller has returned normally
    elapsed,        \* time units spent waiting for the handshake
    \* VoiceSession
    personaplex,    \* self.personaplex is not None
    tasks,          \* _send_task, _recv_task, _text_task
    text_pc,        \* where _text_loop is suspended: "get" or "send"
    text_buffer,    \* self._text_buffer
    input_queue,    \* self.input_queue
    output_queue,   \* self.output_queue
    last_opus,      \* last_opus of _send_loop (None: nothing encoded yet)
    playback_buffer,\* number of int16 samples in converter.playback_buffer
    recv_todo,      \* frames of pcm_chunks _recv_loop has still to queue
    recv_pc,        \* where _recv_loop is: get / put / drop_get / drop_put
    recv_clean,     \* no playback read since the push in progress began
    recv_before,    \* output_queue when the push in progress began
    recv_data,      \* the frame of the last push onto output_queue
    \* discord.VoiceClient, its capture and playback threads, the text channel
    recording,      \* voice_client.recording
    playing,        \* voice_client.is_playing()
    channel_ok,     \* text_channel.send succeeds
    sent,           \* messages delivered to the text channel since start() was
                    \* last called, in order
    writes_left,    \* frames the capture thread may still write
    sink_pc,        \* where StreamingSink.write is: idle / put / drop_get / drop_put
    sink_data,      \* the frame StreamingSink.write was called with
    sink_clean,     \* no consumer step since the write in progress began
    sink_before,    \* input_queue when the write in progress began
    next_frame,     \* identity of the next frame decoded
    \* PersonaPlexClient
    ws_ref,         \* self.ws is not None
    ws_state,       \* the WebSocket this client opened: absent/open/closed
    session_ref,    \* self.session is not None
    session_state,  \* the aiohttp ClientSession this client made: absent/open/closed
    receive_task,   \* self._receive_task
    rx_pending,     \* the item _receive_loop is blocked putting, if any
    audio_queue,    \* self.audio_queue
    text_queue,     \* self.text_queue
    inbound_left,   \* messages the remote peer may still send
    first_message,  \* what connect() received as its first message
    inbound_log,    \* the messages the receive loop took, when recorded
    errors_left,    \* failures the converter may still have
    send_iter,      \* the last iteration of _send_loop, when recorded
    buffer_content, \* converter.playback_buffer as runs of the stereo stream
    chunks,         \* the frames the last personaplex_to_discord returned
    returned,       \* every frame returned so far, in order
    stereo_total,   \* int16 samples of stereo made so far
    calls_left,     \* calls of personaplex_to_discord still to be made
    wire_message,   \* the bytes last encoded or received
    opus_in,        \* the payload given to encode_audio, if it made them
    origin,         \* "encoded", "received" or "none"
    decoded,        \* what decode_message made of wire_message, or NotDecoded
    wire,           \* the messages send_audio wrote to the connection
    send_result,    \* the last call of send_audio: its chunk and outcome
    sends_left,     \* calls of send_audio the driver may still make
    \* the bot (bot/client.py) and the sessions its handlers make
    present,        \* per guild: the member is in the voice channel
    voice_client,   \* per guild: guild.voice_client is not None
    active_session, \* bot.active_session: a session number, 0 for None
    bot_tasks,      \* per session: its three task slots
    next_session,   \* number of the next VoiceSession made
    join_pc,        \* per guild: where its join handler is suspended
    join_session,   \* per guild: the session its join handler made
    leave_pc,       \* per guild: where its leave handler is suspended
    leave_session   \* per guild: the session its leave handler is stopping

callVars == <<pc, stack, call, raised, start_error, starts, stop_completed, elapsed>>
connVars == <<ws_ref, ws_state, session_ref, session_state>>
rxVars == <<receive_task, rx_pending, audio_queue, text_queue, inbound_left>>
textVars == <<text_pc, text_buffer>>
recvVars == <<recv_todo, recv_pc, recv_clean, recv_before, recv_data>>
sinkVars == <<sink_pc, sink_data, sink_clean, sink_before>>
audioVars == <<input_queue, output_queue, last_opus, playback_buffer,
               writes_left, next_frame, recvVars, sinkVars>>
voiceVars == <<recording, playing>>
chanVars == <<channel_ok, sent>>

rebufVars == <<buffer_content, chunks, returned, stereo_total, calls_left>>
\* decode_message has not been applied to wire_message
NotDecoded == [ok |-> FALSE, type |-> -1, payload |-> <<>>]

protoVars == <<wire_message, opus_in, origin, decoded>>
sendVars == <<wire, send_result, sends_left>>
botVars == <<present, voice_client, active_session, bot_tasks, next_session,
            join_pc, join_session, leave_pc, leave_session>>

\* one VoiceSession with its client, and the bot
sessVars == <<callVars, personaplex, tasks, textVars, audioVars, voiceVars,
              chanVars, connVars, rxVars, first_message, sendVars,
              inbound_log, errors_left, rebufVars, protoVars, send_iter>>
vars == <<sessVars, botVars>>

Loops == {"send", "recv", "text"}
NoItem == [q |-> "none", item |-> <<>>]
\* send_audio was not called
NoSend == [chunk |-> <<>>, raised |-> "none"]
\* the messages of the receive loop are not recorded
NoLog == [on |-> FALSE, msgs |-> <<>>]
\* no iteration of the send loop is recorded; pcm_bytes is a frame
\* identity, as SILENCE_FRAME is
NoIter == [on |-> FALSE, tick |-> FALSE, pcm_bytes |-> 0,
           opus_bytes |-> <<>>, written |-> <<>>]
\* no message was received
NoMessage == [type |-> "none", data |-> <<>>]
None == <<>>

----------------------------------------------------------------------------
(* The bot after create_bot (bot/client.py:41-52): in no voice channel, no
   session *)

\* guilds with one voice channel and one member each
NumGuilds == 2
\* VoiceSessions made in one behaviour
MaxSessions == 2

Guilds == 1..NumGuilds
Sessions == 1..MaxSessions

BotInit ==
    /\ present = [g \in Guilds |-> FALSE]
    /\ voice_client = [g \in Guilds |-> FALSE]
    /\ active_session = 0
    /\ bot_tasks = [i \in Sessions |-> [t \in Loops |-> "None"]]
    /\ next_session = 1
    /\ join_pc = [g \in Guilds |-> "idle"]
    /\ join_session = [g \in Guilds |-> 0]
    /\ leave_pc = [g \in Guilds |-> "idle"]
    /\ leave_session = [g \in Guilds |-> 0]

----------------------------------------------------------------------------
(* The state after VoiceSession.__init__ (session.py:48-70); no client yet *)

Init ==
    /\ pc = "idle" /\ stack = <<>> /\ call = "none" /\ raised = "ok"
    /\ start_error = "none" /\ starts = 0 /\ stop_completed = FALSE
    /\ elapsed = 0
    /\ personaplex = FALSE
    /\ tasks = [t \in Loops |-> "None"]
    /\ text_pc = "get" /\ text_buffer = <<>>
    /\ input_queue = <<>> /\ output_queue = <<>>
    /\ last_opus = None /\ playback_buffer = 0
    /\ recv_todo = <<>> /\ recv_pc = "get"
    /\ recv_clean = TRUE /\ recv_before = <<>> /\ recv_data = 0
    /\ sink_pc = "idle" /\ sink_data = 0
    /\ sink_clean = TRUE /\ sink_before = <<>>
    /\ recording = FALSE /\ playing = FALSE
    /\ channel_ok = TRUE /\ sent = <<>>
    /\ writes_left = MaxWrites /\ next_frame = 1
    /\ ws_ref = FALSE /\ ws_state = "absent"
    /\ session_ref = FALSE /\ session_state = "absent"
    /\ receive_task = "None" /\ rx_pending = NoItem
    /\ audio_queue = <<>> /\ text_queue = <<>>
    /\ inbound_left = MaxInbound
    /\ first_message = NoMessage
    /\ wire = <<>> /\ send_result = NoSend /\ sends_left = MaxSends
    /\ errors_left = MaxConvertErrors
    /\ buffer_content = <<>> /\ chunks = <<>> /\ returned = <<>>
    /\ stereo_total = 0 /\ calls_left = MaxCalls
    /\ wire_message = <<>> /\ opus_in = <<>> /\ origin = "none"
    /\ decoded = NotDecoded
    /\ inbound_log = NoLog /\ send_iter = NoIter
    /\ BotInit

----------------------------------------------------------------------------
(* PersonaPlexClient.connect, as called from VoiceSession.start *)

\* an exception reaches `except Exception as e` of start() (session.py:104)
StartFails(err) ==
    /\ start_error' = err
    /\ pc' = "except"

\* the session holds nothing a new start() would orphan
Released ==
    /\ \A t \in Loops : tasks[t] \in {"None", "done"}
    /\ receive_task \in {"None", "done"}
    /\ ws_state # "open" /\ session_state # "open"

\* start() is called: session.py:80 makes the client (client.py:24-29),
\* connect() makes the ClientSession (client.py:49-50) and awaits ws_connect
StartCall ==
    /\ pc = "idle" /\ starts < MaxStarts /\ Released
    /\ pc' = "ws_connect"
    /\ call' = "start" /\ raised' = "" /\ start_error' = "none"
    /\ starts' = starts + 1 /\ elapsed' = 0
    /\ personaplex' = TRUE
    /\ ws_ref' = FALSE /\ ws_state' = "absent"
    /\ session_ref' = TRUE /\ session_state' = "open"
    /\ receive_task' = "None" /\ rx_pending' = NoItem
    /\ audio_queue' = <<>> /\ text_queue' = <<>>
    /\ sent' = <<>>
    /\ first_message' = NoMessage
    /\ UNCHANGED <<botVars, send_iter, protoVars, rebufVars, errors_left, inbound_log, sendVars, stack, stop_completed, tasks, textVars,
                   audioVars, voiceVars, channel_ok, inbound_left>>

\* client.py:53, the connection is opened
WsConnectOk ==
    /\ pc = "ws_connect"
    /\ pc' = "handshake"
    /\ ws_ref' = TRUE /\ ws_state' = "open"
    /\ UNCHANGED <<botVars, send_iter, protoVars, rebufVars, errors_left, inbound_log, sendVars, first_message, stack, call, raised, start_error, starts, stop_completed,
                   elapsed, personaplex, tasks, textVars, audioVars, voiceVars,
                   chanVars, session_ref, session_state, rxVars>>

\* client.py:53, ws_connect raises aiohttp.ClientError
WsConnectFail ==
    /\ pc = "ws_connect"
    /\ StartFails("ClientError")
    /\ UNCHANGED <<botVars, send_iter, protoVars, rebufVars, errors_left, inbound_log, sendVars, first_message, stack, call, raised, starts, stop_completed, elapsed,
                   personaplex, tasks, textVars, audioVars, voiceVars,
                   chanVars, connVars, rxVars>>

\* client.py:57, one time unit passes without a message
HandshakeTick ==
    /\ pc = "handshake" /\ elapsed < HANDSHAKE_TIMEOUT
    /\ elapsed' = elapsed + 1
    /\ UNCHANGED <<botVars, send_iter, protoVars, rebufVars, errors_left, inbound_log, sendVars, first_message, pc, stack, call, raised, start_error, starts,
                   stop_completed, personaplex, tasks, textVars, audioVars,
                   voiceVars, chanVars, connVars, rxVars>>

\* (mutant) the tag of the first message is not looked at
HandshakeVerdict_AnyTag(m) ==
    IF m.type # "BINARY" THEN "NotBinary"
    ELSE IF ~decode_message(m.data).ok THEN "ValueError"
    ELSE "ok"

\* what connect() makes of its first message (client.py:58-65)
HandshakeVerdict(m) ==
    IF m.type # "BINARY" THEN "NotBinary"
    ELSE IF ~decode_message(m.data).ok THEN "ValueError"
    ELSE IF decode_message(m.data).type # HANDSHAKE THEN "NotHandshake"
    ELSE "ok"

\* the first messages the remote peer may send
FirstMessages ==
    { [type |-> "BINARY", data |-> d] :
          d \in { <<HANDSHAKE>>, <<AUDIO, 7>>, <<TEXT>> \o BytesA, <<>>, <<255>> } }
    \cup { [type |-> "TEXT", data |-> <<>>], [type |-> "CLOSE", data |-> <<>>] }

\* client.py:57-73, the first message arrives before the timeout; on a
\* Handshake the receive loop is started and connect() returns into
\* start(), which makes the converter (session.py:84, converter.py:35);
\* anything else raises without closing
HandshakeRecv(m) ==
    /\ pc = "handshake" /\ elapsed < HANDSHAKE_TIMEOUT
    /\ ws_state' = IF m.type = "CLOSE" THEN "closed" ELSE ws_state
    /\ IF HandshakeVerdict(m) = "ok"
       THEN /\ receive_task' = "running"
            /\ pc' = "start_recording"
            /\ playback_buffer' = 0
            /\ UNCHANGED start_error
       ELSE /\ StartFails(HandshakeVerdict(m))
            /\ UNCHANGED <<receive_task, playback_buffer>>
    /\ elapsed' = 0
    /\ first_message' = m
    /\ UNCHANGED <<botVars, send_iter, protoVars, rebufVars, errors_left, inbound_log, sendVars, stack, call, raised, starts,
                   stop_completed, personaplex, tasks, textVars, input_queue,
                   output_queue,
                   last_opus, writes_left, next_frame, recvVars, sinkVars,
                   voiceVars, chanVars, ws_ref, session_ref, session_state,
                   rx_pending, audio_queue, text_queue, inbound_left>>

\* (mutant) the timeout is raised like the other handshake errors, with no
\* close()
HandshakeTimeout_NoClose ==
    /\ pc = "handshake" /\ elapsed = HANDSHAKE_TIMEOUT
    /\ pc' = "connect_raise"
    /\ UNCHANGED <<botVars, send_iter, protoVars, rebufVars, errors_left, inbound_log, sendVars, first_message, stack, call, raised, start_error, starts, stop_completed,
                   elapsed, personaplex, tasks, textVars, audioVars, voiceVars,
                   chanVars, connVars, rxVars>>

\* client.py:68-69, asyncio.TimeoutError: connect() calls close()
HandshakeTimeout ==
    /\ pc = "handshake" /\ elapsed = HANDSHAKE_TIMEOUT
    /\ pc' = "close_cancel"
    /\ stack' = <<"connect_raise">> \o stack
    /\ UNCHANGED <<botVars, send_iter, protoVars, rebufVars, errors_left, inbound_log, sendVars, first_message, call, raised, start_error, starts, stop_completed, elapsed,
                   personaplex, tasks, textVars, audioVars, voiceVars,
                   chanVars, connVars, rxVars>>

\* client.py:70, raise RuntimeError("Handshake timeout (60 seconds)")
ConnectRaise ==
    /\ pc = "connect_raise"
    /\ StartFails("HandshakeTimeout")
    /\ UNCHANGED <<botVars, send_iter, protoVars, rebufVars, errors_left, inbound_log, sendVars, first_message, stack, call, raised, starts, stop_completed, elapsed,
                   personaplex, tasks, textVars, audioVars, voiceVars,
                   chanVars, connVars, rxVars>>

----------------------------------------------------------------------------
(* PersonaPlexClient.close (client.py:119-141) *)

\* client.py:124-127, cancel the receive task and await it
CloseCancel ==
    /\ pc = "close_cancel"
    /\ IF receive_task \in {"running", "cancelling"}
       THEN receive_task' = "cancelling" /\ pc' = "close_await"
       ELSE UNCHANGED receive_task /\ pc' = "close_ws"
    /\ UNCHANGED <<botVars, send_iter, protoVars, rebufVars, errors_left, inbound_log, sendVars, first_message, stack, call, raised, start_error, starts, stop_completed,
                   elapsed, personaplex, tasks, textVars, audioVars, voiceVars,
                   chanVars, connVars, rx_pending, audio_queue, text_queue,
                   inbound_left>>

\* client.py:127-129, the receive task has ended
CloseAwait ==
    /\ pc = "close_await" /\ receive_task = "done"
    /\ pc' = "close_ws"
    /\ UNCHANGED <<botVars, send_iter, protoVars, rebufVars, errors_left, inbound_log, sendVars, first_message, stack, call, raised, start_error, starts, stop_completed,
                   elapsed, personaplex, tasks, textVars, audioVars, voiceVars,
                   chanVars, connVars, rxVars>>

\* client.py:132-133
CloseWs ==
    /\ pc = "close_ws"
    /\ pc' = "close_session"
    /\ ws_state' = IF ws_ref /\ ws_state = "open" THEN "closed" ELSE ws_state
    /\ UNCHANGED <<botVars, send_iter, protoVars, rebufVars, errors_left, inbound_log, sendVars, first_message, stack, call, raised, start_error, starts, stop_completed,
                   elapsed, personaplex, tasks, textVars, audioVars, voiceVars,
                   chanVars, ws_ref, session_ref, session_state, rxVars>>

\* (mutant) the references are kept
CloseSession_KeepsRefs ==
    /\ pc = "close_session"
    /\ session_state' = IF session_ref /\ session_state = "open"
                        THEN "closed" ELSE session_state
    /\ pc' = Head(stack)
    /\ stack' = Tail(stack)
    /\ UNCHANGED <<botVars, send_iter, protoVars, rebufVars, errors_left, inbound_log, sendVars, first_message, call, raised, start_error,
                   starts, stop_completed, elapsed, personaplex, tasks,
                   textVars, audioVars, voiceVars, chanVars, ws_ref,
                   session_ref, ws_state, rxVars>>

\* client.py:136-141, close the ClientSession, clear both references, return
CloseSession ==
    /\ pc = "close_session"
    /\ session_state' = IF session_ref /\ session_state = "open"
                        THEN "closed" ELSE session_state
    /\ ws_ref' = FALSE
    /\ session_ref' = FALSE
    /\ pc' = Head(stack)
    /\ stack' = Tail(stack)
    /\ UNCHANGED <<botVars, send_iter, protoVars, rebufVars, errors_left, inbound_log, sendVars, first_message, call, raised, start_error, starts, stop_completed, elapsed,
                   personaplex, tasks, textVars, audioVars, voiceVars,
                   chanVars, ws_state, rxVars>>

----------------------------------------------------------------------------
(* VoiceSession.start after connect() (session.py:84-108) *)

\* session.py:87-90
StartRecording ==
    /\ pc = "start_recording"
    /\ pc' = "play"
    /\ recording' = TRUE
    /\ UNCHANGED <<botVars, send_iter, protoVars, rebufVars, errors_left, inbound_log, sendVars, first_message, stack, call, raised, start_error, starts, stop_completed,
                   elapsed, personaplex, tasks, textVars, audioVars, playing,
                   chanVars, connVars, rxVars>>

\* session.py:88, voice_client.start_recording raises
StartRecordingFail ==
    /\ pc = "start_recording"
    /\ StartFails("RecordingError")
    /\ UNCHANGED <<botVars, send_iter, protoVars, rebufVars, errors_left, inbound_log, sendVars, first_message, stack, call, raised, starts, stop_completed, elapsed,
                   personaplex, tasks, textVars, audioVars, voiceVars,
                   chanVars, connVars, rxVars>>

\* session.py:93-94
StartPlay ==
    /\ pc = "play"
    /\ pc' = "create_tasks"
    /\ playing' = TRUE
    /\ UNCHANGED <<botVars, send_iter, protoVars, rebufVars, errors_left, inbound_log, sendVars, first_message, stack, call, raised, start_error, starts, stop_completed,
                   elapsed, personaplex, tasks, textVars, audioVars, recording,
                   chanVars, connVars, rxVars>>

\* session.py:94, voice_client.play raises
StartPlayFail ==
    /\ pc = "play"
    /\ StartFails("PlayError")
    /\ UNCHANGED <<botVars, send_iter, protoVars, rebufVars, errors_left, inbound_log, sendVars, first_message, stack, call, raised, starts, stop_completed, elapsed,
                   personaplex, tasks, textVars, audioVars, voiceVars,
                   chanVars, connVars, rxVars>>

\* session.py:97-99; a new _send_loop starts with last_opus = None
\* (session.py:144)
CreateTasks ==
    /\ pc = "create_tasks"
    /\ pc' = "send_started"
    /\ tasks' = [t \in Loops |-> "running"]
    /\ text_pc' = "get"
    /\ last_opus' = None
    /\ recv_todo' = <<>> /\ recv_pc' = "get"
    /\ UNCHANGED <<botVars, send_iter, protoVars, rebufVars, errors_left, inbound_log, sendVars, first_message, stack, call, raised, start_error, starts, stop_completed,
                   elapsed, personaplex, text_buffer, input_queue, output_queue,
                   playback_buffer, writes_left, next_frame, recv_clean,
                   recv_before, recv_data, sinkVars, voiceVars, chanVars, connVars,
                   rxVars>>

\* session.py:101-102, the status message is sent and start() returns
SendStarted ==
    /\ pc = "send_started" /\ channel_ok
    /\ sent' = Append(sent, [kind |-> "started", text |-> <<>>])
    /\ pc' = "idle"
    /\ raised' = "ok"
    /\ UNCHANGED <<botVars, send_iter, protoVars, rebufVars, errors_left, inbound_log, sendVars, first_message, stack, call, start_error, starts, stop_completed, elapsed,
                   personaplex, tasks, textVars, audioVars, voiceVars,
                   channel_ok, connVars, rxVars>>

\* session.py:101, text_channel.send raises
SendStartedFail ==
    /\ pc = "send_started" /\ ~channel_ok
    /\ StartFails("StartedSendError")
    /\ UNCHANGED <<botVars, send_iter, protoVars, rebufVars, errors_left, inbound_log, sendVars, first_message, stack, call, raised, starts, stop_completed, elapsed,
                   personaplex, tasks, textVars, audioVars, voiceVars,
                   chanVars, connVars, rxVars>>

\* session.py:104-106, the handler calls stop()
ExceptStop ==
    /\ pc = "except"
    /\ pc' = "stop_cancel"
    /\ stack' = <<"except_send">> \o stack
    /\ UNCHANGED <<botVars, send_iter, protoVars, rebufVars, errors_left, inbound_log, sendVars, first_message, call, raised, start_error, starts, stop_completed, elapsed,
                   personaplex, tasks, textVars, audioVars, voiceVars,
                   chanVars, connVars, rxVars>>

\* session.py:107-108: the failure message, then the original error is
\* raised again; if the send raises, that exception leaves start() instead
ExceptSend ==
    /\ pc = "except_send"
    /\ pc' = "idle"
    /\ IF channel_ok
       THEN /\ sent' = Append(sent, [kind |-> "failed", text |-> <<>>])
            /\ raised' = start_error
       ELSE /\ UNCHANGED sent
            /\ raised' = "FailedSendError"
    /\ UNCHANGED <<botVars, send_iter, protoVars, rebufVars, errors_left, inbound_log, sendVars, first_message, stack, call, start_error, starts, stop_completed, elapsed,
                   personaplex, tasks, textVars, audioVars, voiceVars,
                   channel_ok, connVars, rxVars>>

----------------------------------------------------------------------------
(* VoiceSession.stop (session.py:110-136) *)

\* the caller calls stop(); straight after a stop() that returned, the call
\* is recorded as "stop_again"
StopCalls == {"stop", "stop_again"}

StopCall ==
    /\ pc = "idle"
    /\ pc' = "stop_cancel"
    /\ stack' = <<"caller">>
    /\ call' = IF call \in StopCalls /\ raised = "ok" THEN "stop_again" ELSE "stop"
    /\ raised' = ""
    /\ UNCHANGED <<botVars, send_iter, protoVars, rebufVars, errors_left, inbound_log, sendVars, first_message, start_error, starts, stop_completed, elapsed, personaplex,
                   tasks, textVars, audioVars, voiceVars, chanVars, connVars,
                   rxVars>>

\* task.cancel() on every task that is set and not done
CancelAll(ts) ==
    [t \in Loops |-> IF ts[t] = "running" THEN "cancelling" ELSE ts[t]]

\* asyncio.gather(*tasks, return_exceptions=True) raises TypeError when
\* called, if an argument is None
GatherAccepts(ts) == \A t \in Loops : ts[t] # "None"

\* (mutant) the tasks are cancelled and not awaited
GatherReturns_NoWait(ts) == TRUE

\* asyncio.gather returns when every task is done
GatherReturns(ts) == \A t \in Loops : ts[t] = "done"

\* session.py:115-122 up to the await: the cancellations and the call of
\* gather.  A TypeError of gather leaves stop(); out of the handler of
\* start() it leaves start() too, in place of the original error
StopCancel ==
    /\ pc = "stop_cancel"
    /\ tasks' = CancelAll(tasks)
    /\ IF GatherAccepts(tasks)
       THEN /\ pc' = "stop_gather"
            /\ UNCHANGED <<stack, raised>>
       ELSE /\ pc' = "idle"
            /\ stack' = <<>>
            /\ raised' = "TypeError"
    /\ UNCHANGED <<botVars, send_iter, protoVars, rebufVars, errors_left, inbound_log, sendVars, first_message, call, start_error, starts, stop_completed, elapsed,
                   personaplex, textVars, audioVars, voiceVars, chanVars,
                   connVars, rxVars>>

\* session.py:122, gather returns
StopGather ==
    /\ pc = "stop_gather" /\ GatherReturns(tasks)
    /\ pc' = "stop_io"
    /\ UNCHANGED <<botVars, send_iter, protoVars, rebufVars, errors_left, inbound_log, sendVars, first_message, stack, call, raised, start_error, starts, stop_completed,
                   elapsed, personaplex, tasks, textVars, audioVars, voiceVars,
                   chanVars, connVars, rxVars>>

\* (mutant) stop_recording() is called without looking at .recording
StopsRecording_Unguarded(rec) == TRUE

\* session.py:125, `if self.voice_client.recording`
StopsRecording(rec) == rec

\* session.py:125-134, recording and playback are stopped, then close()
\* is called on the client if there is one.  voice_client.stop_recording()
\* raises RecordingException when nothing is being recorded
StopLocalIO ==
    /\ pc = "stop_io"
    /\ IF StopsRecording(recording) /\ ~recording
       THEN /\ pc' = "idle"
            /\ stack' = <<>>
            /\ raised' = "RecordingException"
            /\ UNCHANGED <<recording, playing>>
       ELSE /\ recording' = FALSE
            /\ playing' = FALSE
            /\ UNCHANGED raised
            /\ IF personaplex
               THEN pc' = "close_cancel" /\ stack' = <<"stop_end">> \o stack
               ELSE pc' = "stop_end" /\ UNCHANGED stack
    /\ UNCHANGED <<botVars, send_iter, protoVars, rebufVars, errors_left, inbound_log, sendVars, first_message, call, start_error, starts, stop_completed, elapsed,
                   personaplex, tasks, textVars, audioVars, chanVars, connVars,
                   rxVars>>

\* session.py:136, stop() returns: to its caller, or into the handler of
\* start() (session.py:107)
StopEnd ==
    /\ pc = "stop_end"
    /\ IF Head(stack) = "caller"
       THEN /\ pc' = "idle"
            /\ raised' = "ok"
            /\ stop_completed' = TRUE
       ELSE /\ pc' = Head(stack)
            /\ UNCHANGED <<raised, stop_completed>>
    /\ stack' = Tail(stack)
    /\ UNCHANGED <<botVars, send_iter, protoVars, rebufVars, errors_left, inbound_log, sendVars, first_message, call, start_error, starts, elapsed, personaplex, tasks,
                   textVars, audioVars, voiceVars, chanVars, connVars, rxVars>>

----------------------------------------------------------------------------
(* asyncio.Queue and the drop-oldest producers *)

\* Queue.full()
full(q, maxsize) == Len(q) >= maxsize

\* (mutant) the item is appended whether the queue is full or not
put_nowait_Unchecked(q, maxsize, x) ==
    [queue |-> Append(q, x), raised |-> FALSE]

\* the result of the first put_nowait of a push: the queue, and whether it
\* raised QueueFull
put_nowait(q, maxsize, x) ==
    IF full(q, maxsize) THEN [queue |-> q, raised |-> TRUE]
    ELSE [queue |-> Append(q, x), raised |-> FALSE]

\* (mutant) the newest item is taken in place of the oldest
get_nowait_Newest(q) ==
    IF q = <<>> THEN [queue |-> q, raised |-> TRUE]
    ELSE [queue |-> SubSeq(q, 1, Len(q) - 1), raised |-> FALSE]

\* the result of get_nowait: the queue, and whether it raised QueueEmpty
get_nowait(q) ==
    IF q = <<>> THEN [queue |-> q, raised |-> TRUE]
    ELSE [queue |-> Tail(q), raised |-> FALSE]

\* the identity of the frame the capture thread writes next: captured
\* frames are numbered below zero, decoded frames above
CapturedFrame == writes_left - MaxWrites - 1

\* sink.py:34-36, StreamingSink.write is called by the capture thread with
\* a new frame and tries put_nowait
SinkWrite ==
    /\ recording /\ sink_pc = "idle" /\ writes_left > 0
    /\ writes_left' = writes_left - 1
    /\ sink_data' = CapturedFrame
    /\ sink_before' = input_queue
    /\ sink_clean' = TRUE
    /\ LET r == put_nowait(input_queue, InputQueueMaxsize, CapturedFrame)
       IN /\ input_queue' = r.queue
          /\ sink_pc' = IF r.raised THEN "drop_get" ELSE "idle"
    /\ UNCHANGED <<botVars, send_iter, protoVars, rebufVars, errors_left, inbound_log, sendVars, first_message, callVars, personaplex, tasks, textVars, output_queue,
                   last_opus, playback_buffer, next_frame, recvVars, voiceVars, chanVars,
                   connVars, rxVars>>

\* sink.py:40, get_nowait drops the oldest frame; QueueEmpty ends the write
\* (sink.py:43-45)
SinkDropGet ==
    /\ sink_pc = "drop_get"
    /\ LET r == get_nowait(input_queue)
       IN /\ input_queue' = r.queue
          /\ sink_pc' = IF r.raised THEN "idle" ELSE "drop_put"
    /\ UNCHANGED <<botVars, send_iter, protoVars, rebufVars, errors_left, inbound_log, sendVars, first_message, callVars, personaplex, tasks, textVars, output_queue,
                   last_opus, playback_buffer, writes_left, next_frame,
                   recvVars, sink_data, sink_clean, sink_before, voiceVars,
                   chanVars, connVars, rxVars>>

\* sink.py:41, put_nowait of the new frame; QueueFull ends the write
SinkDropPut ==
    /\ sink_pc = "drop_put"
    /\ input_queue' = put_nowait(input_queue, InputQueueMaxsize, sink_data).queue
    /\ sink_pc' = "idle"
    /\ UNCHANGED <<botVars, send_iter, protoVars, rebufVars, errors_left, inbound_log, sendVars, first_message, callVars, personaplex, tasks, textVars, output_queue,
                   last_opus, playback_buffer, writes_left, next_frame,
                   recvVars, sink_data, sink_clean, sink_before, voiceVars,
                   chanVars, connVars, rxVars>>

\* source.py:60-70, StreamingPlaybackSource.read called by the playback
\* thread takes the oldest frame (an empty queue gives silence and changes
\* nothing)
SourceRead ==
    /\ playing /\ output_queue # <<>>
    /\ output_queue' = get_nowait(output_queue).queue
    /\ recv_clean' = FALSE
    /\ UNCHANGED <<botVars, send_iter, protoVars, rebufVars, errors_left, inbound_log, sendVars, first_message, callVars, personaplex, tasks, textVars, input_queue,
                   last_opus, playback_buffer, writes_left, next_frame,
                   recv_todo, recv_pc, recv_before, recv_data, sinkVars, voiceVars,
                   chanVars, connVars, rxVars>>

----------------------------------------------------------------------------
(* VoiceSession._send_loop (session.py:138-171) *)

\* (mutant) the exception of one loop ends every loop that is running
Ended_All(ts, t) ==
    [u \in Loops |-> IF ts[u] = "running" THEN "done" ELSE ts[u]]

\* session.py:169-171, 203-205 and 231-232: the exception is caught in the
\* loop's own task, which ends; the other tasks are not touched
Ended(ts, t) == [ts EXCEPT ![t] = "done"]

\* client.py:81-85, send_audio raises unless self.ws is set and open
CanSend == ws_ref /\ ws_state = "open"

\* converter.discord_to_personaplex: the encoder's bytes for the frame, or
\* None while it is buffering (converter.py:83-89)
discord_to_personaplex(pcm, produced) == IF produced THEN <<pcm>> ELSE None

\* (mutant) the previous output is not sent again
ToSend_NoResend(opus) == opus

\* session.py:160-165, what the iteration sends: the new output, else the
\* previous one, else nothing
ToSend(opus) == IF opus # None THEN opus ELSE last_opus

\* (mutant) the newest frame of the queue is handed on, not the oldest
NextPcm_Newest ==
    IF input_queue # <<>> THEN input_queue[Len(input_queue)]
    ELSE SILENCE_FRAME

\* session.py:148-154, pcm_bytes: the head of the input queue, or
\* SILENCE_FRAME when the get times out on an empty queue
NextPcm ==
    IF input_queue # <<>> THEN Head(input_queue) ELSE SILENCE_FRAME

\* the iteration as recorded: the frame handed to the converter, what the
\* converter returned and what send_audio wrote
Recorded(pcm, opus, written) ==
    IF send_iter.on
    THEN [on |-> TRUE, tick |-> ~send_iter.tick, pcm_bytes |-> pcm,
          opus_bytes |-> opus, written |-> written]
    ELSE send_iter

\* one iteration: a frame or silence on timeout, the converter, send_audio;
\* an exception of send_audio ends the loop with a status message
\* (session.py:169-171)
SendLoopIter(produced) ==
    /\ tasks["send"] = "running"
    /\ LET pcm == NextPcm
           opus == discord_to_personaplex(pcm, produced)
       IN /\ input_queue' = get_nowait(input_queue).queue
          /\ send_iter' = Recorded(pcm, opus,
                                   IF CanSend THEN ToSend(opus) ELSE None)
          /\ sink_clean' = (sink_clean /\ input_queue = <<>>)
          /\ IF ToSend(opus) = None \/ CanSend
             THEN /\ last_opus' = ToSend(opus)
                  /\ UNCHANGED <<tasks, sent>>
             ELSE /\ tasks' = Ended(tasks, "send")
                  /\ sent' = IF channel_ok
                             THEN Append(sent, [kind |-> "send_error", text |-> <<>>])
                             ELSE sent
                  /\ UNCHANGED last_opus
    /\ UNCHANGED <<botVars, protoVars, rebufVars, errors_left, inbound_log, sendVars, first_message, callVars, personaplex, textVars, output_queue,
                   playback_buffer, writes_left, next_frame, recvVars,
                   sink_pc, sink_data, sink_before, voiceVars, channel_ok,
                   connVars, rxVars>>

\* (mutant) the converter's exception reaches the handler of the loop
SendLoopConvertFails_Propagates ==
    /\ tasks["send"] = "running" /\ errors_left > 0
    /\ errors_left' = errors_left - 1
    /\ send_iter' = Recorded(NextPcm, None, None)
    /\ input_queue' = get_nowait(input_queue).queue
    /\ sink_clean' = (sink_clean /\ input_queue = <<>>)
    /\ tasks' = [tasks EXCEPT !["send"] = "done"]
    /\ sent' = IF channel_ok
               THEN Append(sent, [kind |-> "send_error", text |-> <<>>])
               ELSE sent
    /\ UNCHANGED <<botVars, protoVars, rebufVars, inbound_log, sendVars,
                   first_message, callVars,
                   personaplex, textVars, output_queue, last_opus,
                   playback_buffer, writes_left, next_frame, recvVars,
                   sink_pc, sink_data, sink_before, voiceVars, channel_ok,
                   connVars, rxVars>>

\* an iteration in which the converter fails: discord_to_personaplex
\* catches the exception and returns None (converter.py:91-93), and the
\* loop goes on as when the encoder is buffering (session.py:160-165)
SendLoopConvertFails ==
    /\ tasks["send"] = "running" /\ errors_left > 0
    /\ errors_left' = errors_left - 1
    /\ send_iter' = Recorded(NextPcm, None,
                             IF CanSend THEN ToSend(None) ELSE None)
    /\ input_queue' = get_nowait(input_queue).queue
    /\ sink_clean' = (sink_clean /\ input_queue = <<>>)
    /\ IF ToSend(None) = None \/ CanSend
       THEN UNCHANGED <<tasks, sent>>
       ELSE /\ tasks' = [tasks EXCEPT !["send"] = "done"]
            /\ sent' = IF channel_ok
                       THEN Append(sent, [kind |-> "send_error", text |-> <<>>])
                       ELSE sent
    /\ UNCHANGED <<botVars, protoVars, rebufVars, inbound_log, sendVars,
                   first_message, callVars,
                   personaplex, textVars, output_queue, last_opus,
                   playback_buffer, writes_left, next_frame, recvVars,
                   sink_pc, sink_data, sink_before, voiceVars, channel_ok,
                   connVars, rxVars>>

\* session.py:167-168 and 201-202, CancelledError at the await of the send
\* loop or of the receive loop (the receive loop awaits only at its get)
LoopCancelled(t) ==
    /\ t \in {"send", "recv"}
    /\ tasks[t] = "cancelling"
    /\ t = "recv" => recv_pc = "get"
    /\ tasks' = [tasks EXCEPT ![t] = "done"]
    /\ UNCHANGED <<botVars, send_iter, protoVars, rebufVars, errors_left, inbound_log, sendVars, first_message, callVars, personaplex, textVars, audioVars, voiceVars,
                   chanVars, connVars, rxVars>>

----------------------------------------------------------------------------
(* VoiceSession._recv_loop (session.py:173-205) *)

\* the numbers of stereo samples one chunk may decode to (converter.py:107-122)
DecodedSamples == {0, 960, 1920, 3840}

\* converter.py:129
chunk_size == DISCORD_FRAME_SAMPLES * DISCORD_CHANNELS

\* converter.py:125-136, the frames personaplex_to_discord returns when the
\* chunk decodes to n stereo samples, as frame identities from next_frame on
personaplex_to_discord(n) ==
    [i \in 1..((playback_buffer + n) \div chunk_size) |-> next_frame + i - 1]

\* session.py:179-186, a chunk is taken from the client's audio queue and
\* converted
RecvLoopGet(n) ==
    /\ tasks["recv"] = "running"
    /\ recv_pc = "get" /\ audio_queue # <<>>
    /\ audio_queue' = Tail(audio_queue)
    /\ recv_todo' = personaplex_to_discord(n)
    /\ playback_buffer' = (playback_buffer + n) % chunk_size
    /\ next_frame' = next_frame + Len(personaplex_to_discord(n))
    /\ recv_pc' = IF personaplex_to_discord(n) = <<>> THEN "get" ELSE "put"
    /\ UNCHANGED <<botVars, send_iter, protoVars, rebufVars, errors_left, inbound_log, sendVars, first_message, callVars, personaplex, tasks, textVars, input_queue,
                   output_queue, last_opus, writes_left, recv_clean,
                   recv_before, recv_data, sinkVars, voiceVars, chanVars, connVars,
                   receive_task, rx_pending, text_queue, inbound_left>>

\* a chunk is taken and the converter fails: personaplex_to_discord
\* catches the exception and returns [] (converter.py:138-140), the loop
\* goes back to its get
RecvLoopConvertFails ==
    /\ tasks["recv"] = "running" /\ errors_left > 0
    /\ recv_pc = "get" /\ audio_queue # <<>>
    /\ errors_left' = errors_left - 1
    /\ audio_queue' = Tail(audio_queue)
    /\ recv_todo' = <<>>
    /\ UNCHANGED <<botVars, send_iter, protoVars, rebufVars, inbound_log, sendVars,
                   first_message, callVars,
                   personaplex, tasks, textVars, input_queue, output_queue,
                   last_opus, playback_buffer, writes_left, next_frame,
                   recv_pc, recv_clean, recv_before, recv_data, sinkVars,
                   voiceVars, chanVars, connVars, receive_task, rx_pending,
                   text_queue, inbound_left>>

\* the frame is queued or dropped: on to the next frame of pcm_chunks
NextChunk == IF Len(recv_todo) > 1 THEN "put" ELSE "get"

\* session.py:190-192, put_nowait of the next frame
RecvPut ==
    /\ recv_pc = "put"
    /\ recv_before' = output_queue
    /\ recv_data' = Head(recv_todo)
    /\ recv_clean' = TRUE
    /\ LET r == put_nowait(output_queue, OutputQueueMaxsize, Head(recv_todo))
       IN /\ output_queue' = r.queue
          /\ recv_pc' = IF r.raised THEN "drop_get" ELSE NextChunk
          /\ recv_todo' = IF r.raised THEN recv_todo ELSE Tail(recv_todo)
    /\ UNCHANGED <<botVars, send_iter, protoVars, rebufVars, errors_left, inbound_log, sendVars, first_message, callVars, personaplex, tasks, textVars, input_queue,
                   last_opus, playback_buffer, writes_left, next_frame,
                   sinkVars, voiceVars, chanVars, connVars, rxVars>>

\* session.py:195, get_nowait drops the oldest frame; QueueEmpty drops the
\* new one instead (session.py:198-199)
RecvDropGet ==
    /\ recv_pc = "drop_get"
    /\ LET r == get_nowait(output_queue)
       IN /\ output_queue' = r.queue
          /\ recv_pc' = IF r.raised THEN NextChunk ELSE "drop_put"
          /\ recv_todo' = IF r.raised THEN Tail(recv_todo) ELSE recv_todo
    /\ UNCHANGED <<botVars, send_iter, protoVars, rebufVars, errors_left, inbound_log, sendVars, first_message, callVars, personaplex, tasks, textVars, input_queue,
                   last_opus, playback_buffer, writes_left, next_frame,
                   recv_clean, recv_before, recv_data, sinkVars, voiceVars, chanVars,
                   connVars, rxVars>>

\* session.py:196, put_nowait of the new frame
RecvDropPut ==
    /\ recv_pc = "drop_put"
    /\ output_queue' = put_nowait(output_queue, OutputQueueMaxsize,
                                  Head(recv_todo)).queue
    /\ recv_pc' = NextChunk
    /\ recv_todo' = Tail(recv_todo)
    /\ UNCHANGED <<botVars, send_iter, protoVars, rebufVars, errors_left, inbound_log, sendVars, first_message, callVars, personaplex, tasks, textVars, input_queue,
                   last_opus, playback_buffer, writes_left, next_frame,
                   recv_clean, recv_before, recv_data, sinkVars, voiceVars, chanVars,
                   connVars, rxVars>>

----------------------------------------------------------------------------
(* VoiceSession._text_loop (session.py:207-232) *)

\* (mutant) a fragment that ends in whitespace is taken for a flush trigger
FlushDue_TrailingSpace(text, buffer) ==
    \/ Len(text) > 0 /\ text[Len(text)] \in Whitespace
    \/ Len(buffer) >= TEXT_FLUSH_LEN

\* (mutant) the buffer is flushed only once it is longer than the limit
FlushDue_Late(text, buffer) == isspace(text) \/ Len(buffer) > TEXT_FLUSH_LEN

\* session.py:221
FlushDue(text, buffer) == isspace(text) \/ Len(buffer) >= TEXT_FLUSH_LEN

AiMessage(buffer) == [kind |-> "ai", text |-> strip(buffer)]

\* session.py:215-224 up to the await of the send: a fragment is taken and
\* appended; a due flush of blank text only empties the buffer
TextLoopGet ==
    /\ tasks["text"] = "running" /\ text_pc = "get"
    /\ text_queue # <<>>
    /\ text_queue' = Tail(text_queue)
    /\ LET text == Head(text_queue)
           buffer == text_buffer \o text
       IN IF FlushDue(text, buffer)
          THEN IF strip(buffer) # <<>>
               THEN text_buffer' = buffer /\ text_pc' = "send"
               ELSE text_buffer' = <<>> /\ text_pc' = "get"
          ELSE text_buffer' = buffer /\ text_pc' = "get"
    /\ UNCHANGED <<botVars, send_iter, protoVars, rebufVars, errors_left, inbound_log, sendVars, first_message, callVars, personaplex, tasks, audioVars, voiceVars,
                   chanVars, connVars, receive_task, rx_pending, audio_queue,
                   inbound_left>>

\* session.py:223-224, the send completes and the buffer is emptied; when
\* the send raises, the loop ends at session.py:231-232 with no message
TextLoopSend ==
    /\ tasks["text"] = "running" /\ text_pc = "send"
    /\ IF channel_ok
       THEN /\ sent' = Append(sent, AiMessage(text_buffer))
            /\ text_buffer' = <<>>
            /\ text_pc' = "get"
            /\ UNCHANGED tasks
       ELSE /\ tasks' = Ended(tasks, "text")
            /\ UNCHANGED <<sent, text_buffer, text_pc>>
    /\ UNCHANGED <<botVars, send_iter, protoVars, rebufVars, errors_left, inbound_log, sendVars, first_message, callVars, personaplex, audioVars, voiceVars, channel_ok,
                   connVars, rxVars>>

\* (mutant) the loop ends at its cancellation with no last flush
TextLoopCancelled_NoFlush(delivered) ==
    /\ tasks["text"] = "cancelling"
    /\ tasks' = [tasks EXCEPT !["text"] = "done"]
    /\ UNCHANGED sent
    /\ UNCHANGED <<botVars, send_iter, protoVars, rebufVars, errors_left,
                   inbound_log, sendVars, first_message, callVars,
                   personaplex, textVars, audioVars, voiceVars, channel_ok,
                   connVars, rxVars>>

\* session.py:226-230, CancelledError at the get or at the send in flight:
\* the buffer is flushed if it holds text.  `delivered` says whether a send
\* in flight had reached the channel when it was cancelled
TextLoopCancelled(delivered) ==
    /\ tasks["text"] = "cancelling"
    /\ tasks' = [tasks EXCEPT !["text"] = "done"]
    /\ LET inflight == IF text_pc = "send" /\ delivered /\ channel_ok
                       THEN <<AiMessage(text_buffer)>> ELSE <<>>
           final == IF strip(text_buffer) # <<>> /\ channel_ok
                    THEN <<AiMessage(text_buffer)>> ELSE <<>>
       IN sent' = sent \o inflight \o final
    /\ UNCHANGED <<botVars, send_iter, protoVars, rebufVars, errors_left, inbound_log, sendVars, first_message, callVars, personaplex, textVars, audioVars, voiceVars,
                   channel_ok, connVars, rxVars>>

----------------------------------------------------------------------------
(* PersonaPlexClient._receive_loop (client.py:87-117) *)

\* (mutant) a Text payload is queued as it is, not decoded
Route_Undecoded(data) ==
    LET d == decode_message(data)
    IN IF ~d.ok THEN NoItem
       ELSE IF d.type = AUDIO THEN [q |-> "audio", item |-> d.payload]
       ELSE IF d.type = TEXT THEN [q |-> "text", item |-> d.payload]
       ELSE NoItem

\* client.py:93-104, the queue and item a binary message is routed to;
\* a decoding error, invalid UTF-8 or another type routes nothing
Route(data) ==
    LET d == decode_message(data)
    IN IF ~d.ok THEN NoItem
       ELSE IF d.type = AUDIO THEN [q |-> "audio", item |-> d.payload]
       ELSE IF d.type = TEXT /\ utf8_decode(d.payload).ok
            THEN [q |-> "text", item |-> utf8_decode(d.payload).text]
       ELSE NoItem

\* `await queue.put(item)` returns at once when the queue has room
HasRoom(q) ==
    IF q = "audio" THEN ~full(audio_queue, AudioQueueMaxsize)
    ELSE ~full(text_queue, TextQueueMaxsize)

\* the put itself
Enqueue(it) ==
    /\ audio_queue' = IF it.q = "audio" THEN Append(audio_queue, it.item)
                      ELSE audio_queue
    /\ text_queue' = IF it.q = "text" THEN Append(text_queue, it.item)
                     ELSE text_queue

\* one message of `async for msg in self.ws`: a binary message is routed
\* and put, or the loop is left waiting in put() when the queue is full;
\* ERROR, CLOSE and CLOSED end the loop, the connection being closed
ReceiveLoopMsg(m) ==
    /\ receive_task = "running" /\ rx_pending = NoItem
    /\ ws_state = "open" /\ inbound_left > 0
    /\ inbound_left' = inbound_left - 1
    /\ inbound_log' = IF inbound_log.on
                      THEN [inbound_log EXCEPT !.msgs = Append(@, m)]
                      ELSE inbound_log
    /\ IF m.type = "BINARY"
       THEN /\ IF Route(m.data) = NoItem
               THEN UNCHANGED <<rx_pending, audio_queue, text_queue>>
               ELSE IF HasRoom(Route(m.data).q)
                    THEN Enqueue(Route(m.data)) /\ UNCHANGED rx_pending
                    ELSE /\ rx_pending' = Route(m.data)
                         /\ UNCHANGED <<audio_queue, text_queue>>
            /\ UNCHANGED <<receive_task, ws_state>>
       ELSE IF m.type \in {"ERROR", "CLOSE", "CLOSED"}
            THEN /\ receive_task' = "done"
                 /\ ws_state' = "closed"
                 /\ UNCHANGED <<rx_pending, audio_queue, text_queue>>
            ELSE UNCHANGED <<receive_task, ws_state, rx_pending, audio_queue,
                             text_queue>>
    /\ UNCHANGED <<botVars, send_iter, protoVars, rebufVars, errors_left, sendVars, first_message, callVars, personaplex, tasks, textVars, audioVars,
                   voiceVars, chanVars, ws_ref, session_ref, session_state>>

\* client.py:96 and :99, a put that waited finds room
ReceiveLoopPut ==
    /\ receive_task = "running" /\ rx_pending # NoItem
    /\ HasRoom(rx_pending.q)
    /\ Enqueue(rx_pending)
    /\ rx_pending' = NoItem
    /\ UNCHANGED <<botVars, send_iter, protoVars, rebufVars, errors_left, inbound_log, sendVars, first_message, callVars, personaplex, tasks, textVars, audioVars,
                   voiceVars, chanVars, connVars, receive_task, inbound_left>>

\* client.py:125-129, CancelledError ends the receive loop wherever it waits
ReceiveLoopCancelled ==
    /\ receive_task = "cancelling"
    /\ receive_task' = "done"
    /\ rx_pending' = NoItem
    /\ UNCHANGED <<botVars, send_iter, protoVars, rebufVars, errors_left, inbound_log, sendVars, first_message, callVars, personaplex, tasks, textVars, audioVars,
                   voiceVars, chanVars, connVars, audio_queue, text_queue,
                   inbound_left>>

----------------------------------------------------------------------------
(* The text channel *)

\* text_channel.send starts to raise (discord.HTTPException) or stops to
ChannelFlip ==
    /\ channel_ok' = ~channel_ok
    /\ UNCHANGED <<botVars, send_iter, protoVars, rebufVars, errors_left, inbound_log, sendVars, first_message, callVars, personaplex, tasks, textVars, audioVars,
                   voiceVars, sent, connVars, rxVars>>

----------------------------------------------------------------------------
(* The session driven through start() and stop() by one caller *)

\* what the remote peer sends while the session is driven through its
\* lifecycle
LifecycleMessages ==
    { [type |-> "BINARY", data |-> d] :
          d \in { <<TEXT>> \o BytesA, <<TEXT>> \o BytesSpace } }
    \cup { [type |-> "CLOSE", data |-> <<>>] }

Next ==
    \/ StartCall \/ WsConnectOk \/ WsConnectFail
    \/ HandshakeTick \/ HandshakeTimeout \/ ConnectRaise
    \/ \E m \in FirstMessages : HandshakeRecv(m)
    \/ StartRecording \/ StartRecordingFail \/ StartPlay \/ StartPlayFail
    \/ CreateTasks \/ SendStarted \/ SendStartedFail
    \/ ExceptStop \/ ExceptSend
    \/ StopCall \/ StopCancel \/ StopGather \/ StopLocalIO \/ StopEnd
    \/ CloseCancel \/ CloseAwait \/ CloseWs \/ CloseSession
    \/ \E produced \in BOOLEAN : SendLoopIter(produced)
    \/ \E t \in {"send", "recv"} : LoopCancelled(t)
    \/ TextLoopGet \/ TextLoopSend
    \/ \E delivered \in BOOLEAN : TextLoopCancelled(delivered)
    \/ \E m \in LifecycleMessages : ReceiveLoopMsg(m)
    \/ ReceiveLoopCancelled
    \/ ChannelFlip

Spec == Init /\ [][Next]_vars

----------------------------------------------------------------------------
(* The queues of an Active session: the capture thread writes to the sink,
   the playback thread reads the source, the remote peer sends audio and
   text, and the four loops run *)

\* messages the remote peer sends while the session is Active: enough to
\* fill the larger of the client's queues and one more
QueueInbound == AudioQueueMaxsize + 1

\* what the remote peer sends to an Active session
QueueMessages ==
    { [type |-> "BINARY", data |-> d] :
          d \in { <<AUDIO, 7>>, <<TEXT>> \o BytesA, <<TEXT>> \o BytesSpace } }

\* the state start() returns in (session.py:72-102), the remote peer
\* having `inbound` messages to send
Active(inbound) ==
    /\ pc = "idle" /\ stack = <<>> /\ call = "start" /\ raised = "ok"
    /\ start_error = "none" /\ starts = 1 /\ stop_completed = FALSE
    /\ elapsed = 0
    /\ personaplex = TRUE
    /\ tasks = [t \in Loops |-> "running"]
    /\ text_pc = "get" /\ text_buffer = <<>>
    /\ input_queue = <<>> /\ output_queue = <<>>
    /\ last_opus = None /\ playback_buffer = 0
    /\ recv_todo = <<>> /\ recv_pc = "get"
    /\ recv_clean = TRUE /\ recv_before = <<>> /\ recv_data = 0
    /\ sink_pc = "idle" /\ sink_data = 0
    /\ sink_clean = TRUE /\ sink_before = <<>>
    /\ recording = TRUE /\ playing = TRUE
    /\ channel_ok = TRUE /\ sent = <<[kind |-> "started", text |-> <<>>]>>
    /\ writes_left = MaxWrites /\ next_frame = 1
    /\ ws_ref = TRUE /\ ws_state = "open"
    /\ session_ref = TRUE /\ session_state = "open"
    /\ receive_task = "running" /\ rx_pending = NoItem
    /\ audio_queue = <<>> /\ text_queue = <<>>
    /\ inbound_left = inbound
    /\ first_message = [type |-> "BINARY", data |-> <<HANDSHAKE>>]
    /\ wire = <<>> /\ send_result = NoSend /\ sends_left = MaxSends
    /\ errors_left = MaxConvertErrors
    /\ buffer_content = <<>> /\ chunks = <<>> /\ returned = <<>>
    /\ stereo_total = 0 /\ calls_left = MaxCalls
    /\ wire_message = <<>> /\ opus_in = <<>> /\ origin = "none"
    /\ decoded = NotDecoded
    /\ BotInit

InitQueues == Active(QueueInbound) /\ inbound_log = NoLog /\ send_iter = NoIter

NextQueues ==
    \/ SinkWrite \/ SinkDropGet \/ SinkDropPut
    \/ SourceRead
    \/ \E produced \in BOOLEAN : SendLoopIter(produced)
    \/ \E n \in DecodedSamples : RecvLoopGet(n)
    \/ RecvPut \/ RecvDropGet \/ RecvDropPut
    \/ TextLoopGet \/ TextLoopSend
    \/ \E m \in QueueMessages : ReceiveLoopMsg(m)
    \/ ReceiveLoopPut

SpecQueues == InitQueues /\ [][NextQueues]_vars

\* messages enough for a flush of the text loop, then to fill the text queue
\* and one more
RelayInbound == TextQueueMaxsize + 3

InitRelay == Active(RelayInbound) /\ inbound_log = NoLog /\ send_iter = NoIter

\* the remote peer's side of an Active session alone, with a text channel
\* that may fail
NextRelay ==
    \/ \E m \in QueueMessages : ReceiveLoopMsg(m)
    \/ ReceiveLoopPut
    \/ \E n \in DecodedSamples : RecvLoopGet(n)
    \/ RecvPut \/ RecvDropGet \/ RecvDropPut
    \/ SourceRead
    \/ TextLoopGet \/ TextLoopSend
    \/ ChannelFlip

\* the event loop runs every task that is ready (the loops of the session
\* and of the client), and the playback thread keeps reading
FairRelay ==
    /\ WF_vars(ReceiveLoopPut)
    /\ WF_vars(\E n \in DecodedSamples : RecvLoopGet(n))
    /\ WF_vars(RecvPut) /\ WF_vars(RecvDropGet) /\ WF_vars(RecvDropPut)
    /\ WF_vars(SourceRead)
    /\ WF_vars(TextLoopGet) /\ WF_vars(TextLoopSend)

SpecRelay == InitRelay /\ [][NextRelay]_vars /\ FairRelay

----------------------------------------------------------------------------
(* The two audio loops of an Active session with a converter that may fail *)

\* Audio from the remote peer
AudioMessages == { [type |-> "BINARY", data |-> <<AUDIO, 7>>] }

NextConvert ==
    \/ SinkWrite \/ SinkDropGet \/ SinkDropPut
    \/ \E produced \in BOOLEAN : SendLoopIter(produced)
    \/ SendLoopConvertFails
    \/ \E m \in AudioMessages : ReceiveLoopMsg(m)
    \/ \E n \in DecodedSamples : RecvLoopGet(n)
    \/ RecvLoopConvertFails
    \/ RecvPut \/ RecvDropGet \/ RecvDropPut

SpecConvert == InitQueues /\ [][NextConvert]_vars

----------------------------------------------------------------------------
(* AudioConverter.personaplex_to_discord, the contents of its buffer
   (converter.py:124-136).  The stereo stream the converter makes is the
   int16 samples 1, 2, 3, ... in the order they are made, and an array of
   them is a sequence of runs [lo, hi] of that stream *)

\* bytes of one int16 sample in ndarray.tobytes() (converter.py:119, 133)
BytesPerSample == 2

\* len() of an array
RECURSIVE ArrayLen(_)
ArrayLen(a) ==
    IF a = <<>> THEN 0 ELSE Head(a).hi - Head(a).lo + 1 + ArrayLen(Tail(a))

\* a[:n]
RECURSIVE Slice(_, _)
Slice(a, n) ==
    IF a = <<>> \/ n <= 0 THEN <<>>
    ELSE LET r == Head(a)
             len == r.hi - r.lo + 1
         IN IF len <= n THEN <<r>> \o Slice(Tail(a), n - len)
            ELSE <<[lo |-> r.lo, hi |-> r.lo + n - 1]>>

\* a[n:]
RECURSIVE SliceFrom(_, _)
SliceFrom(a, n) ==
    IF a = <<>> THEN <<>>
    ELSE IF n <= 0 THEN a
    ELSE LET r == Head(a)
             len == r.hi - r.lo + 1
         IN IF len <= n THEN SliceFrom(Tail(a), n - len)
            ELSE <<[lo |-> r.lo + n, hi |-> r.hi]>> \o Tail(a)

\* the same array with adjoining runs written as one
RECURSIVE Joined(_)
Joined(a) ==
    IF Len(a) < 2 THEN a
    ELSE IF a[1].hi + 1 = a[2].lo
         THEN Joined(<<[lo |-> a[1].lo, hi |-> a[2].hi]>> \o Tail(Tail(a)))
         ELSE <<a[1]>> \o Joined(Tail(a))

\* np.concatenate([a, b])
concatenate(a, b) == Joined(a \o b)

\* the n samples of stereo a call makes, the stream having `total` so far
stereo(total, n) ==
    IF n = 0 THEN <<>> ELSE <<[lo |-> total + 1, hi |-> total + n]>>

\* (mutant) a buffer of exactly one frame is kept
RECURSIVE SplitChunks_Late(_, _)
SplitChunks_Late(buffer, out) ==
    IF ArrayLen(buffer) > chunk_size
    THEN SplitChunks_Late(SliceFrom(buffer, chunk_size),
                          Append(out, Slice(buffer, chunk_size)))
    ELSE [chunks |-> out, playback_buffer |-> buffer]

\* converter.py:131-134, the while loop
RECURSIVE SplitChunks(_, _)
SplitChunks(buffer, out) ==
    IF ArrayLen(buffer) >= chunk_size
    THEN SplitChunks(SliceFrom(buffer, chunk_size),
                     Append(out, Slice(buffer, chunk_size)))
    ELSE [chunks |-> out, playback_buffer |-> buffer]

\* the numbers of int16 samples of stereo one call may make: none when the
\* decoder has no PCM yet (converter.py:109-110), or four for each sample
\* decoded (converter.py:116-122)
StereoSamples == {0, 480, 960, 1920, 2400, 3840}

\* one call of personaplex_to_discord that makes n samples of stereo
Convert(n) ==
    /\ calls_left > 0
    /\ calls_left' = calls_left - 1
    /\ stereo_total' = stereo_total + n
    /\ LET split == SplitChunks(
                        concatenate(buffer_content, stereo(stereo_total, n)),
                        <<>>)
       IN /\ chunks' = split.chunks
          /\ buffer_content' = split.playback_buffer
          /\ returned' = returned \o split.chunks
    /\ UNCHANGED <<botVars, send_iter, protoVars, errors_left, inbound_log, sendVars,
                   first_message, callVars, personaplex, tasks, textVars,
                   audioVars, voiceVars, chanVars, connVars, rxVars>>

NextRebuffer == \E n \in StereoSamples : Convert(n)

SpecRebuffer == Init /\ [][NextRebuffer]_vars

----------------------------------------------------------------------------
(* protocol.encode_audio and protocol.decode_message on their own
   (protocol.py:20-50) *)

\* byte values: the three tags and two that are no tag
WireBytes == {0, 1, 2, 3, 255}

\* decode_message is not in progress
NoneToDecode == origin = "none" \/ decoded # NotDecoded

\* the byte sequences of at most MaxMessageLen bytes
ByteSeqs == UNION { [1..n -> WireBytes] : n \in 0..MaxMessageLen }

\* encode_audio(opus_bytes) is called
EncodeAudio(opus_bytes) ==
    /\ NoneToDecode
    /\ wire_message' = encode_audio(opus_bytes)
    /\ opus_in' = opus_bytes
    /\ origin' = "encoded"
    /\ decoded' = NotDecoded
    /\ UNCHANGED <<botVars, send_iter, rebufVars, errors_left, inbound_log,
                   sendVars,
                   first_message, callVars, personaplex, tasks, textVars,
                   audioVars, voiceVars, chanVars, connVars, rxVars>>

\* a binary message arrives from the peer
Arrive(data) ==
    /\ NoneToDecode
    /\ wire_message' = data
    /\ opus_in' = <<>>
    /\ origin' = "received"
    /\ decoded' = NotDecoded
    /\ UNCHANGED <<botVars, send_iter, rebufVars, errors_left, inbound_log,
                   sendVars,
                   first_message, callVars, personaplex, tasks, textVars,
                   audioVars, voiceVars, chanVars, connVars, rxVars>>

\* decode_message(wire_message) is called
DecodeMessage ==
    /\ origin # "none" /\ decoded = NotDecoded
    /\ decoded' = decode_message(wire_message)
    /\ UNCHANGED <<botVars, send_iter, rebufVars, errors_left, inbound_log,
                   sendVars,
                   first_message, callVars, personaplex, tasks, textVars,
                   audioVars, voiceVars, chanVars, connVars, rxVars,
                   wire_message, opus_in, origin>>

NextProtocol ==
    \/ \E opus_bytes \in ByteSeqs : EncodeAudio(opus_bytes)
    \/ \E data \in ByteSeqs : Arrive(data)
    \/ DecodeMessage

SpecProtocol == Init /\ [][NextProtocol]_vars

----------------------------------------------------------------------------
(* The send loop of an Active session with its iterations recorded: the
   capture thread writes frames, the converter may be buffering or fail,
   and the remote peer may close the connection *)

\* the remote peer closes the connection
PeerCloses == { [type |-> "CLOSE", data |-> <<>>] }

InitSend ==
    /\ Active(QueueInbound) /\ inbound_log = NoLog
    /\ send_iter = [NoIter EXCEPT !.on = TRUE]

NextSend ==
    \/ SinkWrite \/ SinkDropGet \/ SinkDropPut
    \/ \E produced \in BOOLEAN : SendLoopIter(produced)
    \/ SendLoopConvertFails
    \/ \E m \in PeerCloses : ReceiveLoopMsg(m)

SpecSend == InitSend /\ [][NextSend]_vars

----------------------------------------------------------------------------
(* The text loop of an Active session fed with words: the remote peer sends
   "hello", "hello " and " " as Text messages *)

WordMessages ==
    { [type |-> "BINARY", data |-> <<TEXT>> \o w] :
          w \in {BytesHello, BytesHelloSpace, BytesSpace} }

\* Text messages the remote peer sends
WordInbound == MaxInbound + 1

InitWords ==
    Active(WordInbound) /\ inbound_log = NoLog /\ send_iter = NoIter

NextWords ==
    \/ \E m \in WordMessages : ReceiveLoopMsg(m)
    \/ ReceiveLoopPut
    \/ TextLoopGet \/ TextLoopSend

SpecWords == InitWords /\ [][NextWords]_vars

----------------------------------------------------------------------------
(* The text loop of an Active session fed with single characters: the k-th
   fragment the remote peer sends is the one character of code 33 + k, none
   of them whitespace *)

\* fragments enough for one flush by length, one more, and another
LettersInbound == TEXT_FLUSH_LEN + 2

\* the k-th character
Letter(k) == 33 + k

\* the fragment the remote peer sends next
NextLetter ==
    [type |-> "BINARY",
     data |-> <<TEXT, Letter(LettersInbound - inbound_left + 1)>>]

InitLetters ==
    Active(LettersInbound) /\ inbound_log = NoLog /\ send_iter = NoIter

NextLetters ==
    \/ ReceiveLoopMsg(NextLetter)
    \/ ReceiveLoopPut
    \/ TextLoopGet \/ TextLoopSend

SpecLetters == InitLetters /\ [][NextLetters]_vars

----------------------------------------------------------------------------
(* The same text loop with a caller that may call stop() at any time *)

NextLettersStop ==
    \/ NextLetters
    \/ StopCall \/ StopCancel \/ StopGather \/ StopLocalIO \/ StopEnd
    \/ CloseCancel \/ CloseAwait \/ CloseWs \/ CloseSession
    \/ \E t \in {"send", "recv"} : LoopCancelled(t)
    \/ \E delivered \in BOOLEAN : TextLoopCancelled(delivered)
    \/ ReceiveLoopCancelled

SpecLettersStop == InitLetters /\ [][NextLettersStop]_vars

----------------------------------------------------------------------------
(* The receive loop of a connected client alone: the messages it takes are
   recorded, and nothing consumes its queues *)

\* messages the remote peer sends in one behaviour
RouteInbound == MaxInbound + 2

\* well-formed and malformed binary messages: two Audio chunks, two Text
\* fragments, an empty message, an unknown tag, Text that is not UTF-8 and
\* a Handshake
RouteMessages ==
    { [type |-> "BINARY", data |-> d] :
          d \in { <<AUDIO, 7>>, <<AUDIO, 8>>, <<TEXT>> \o BytesA,
                  <<TEXT>> \o BytesSpace, <<>>, <<255>>, <<TEXT, 255>>,
                  <<HANDSHAKE>> } }

InitRoute == Active(RouteInbound) /\ inbound_log = [on |-> TRUE, msgs |-> <<>>]
    /\ send_iter = NoIter

NextRoute == \E m \in RouteMessages : ReceiveLoopMsg(m)

SpecRoute == InitRoute /\ [][NextRoute]_vars

----------------------------------------------------------------------------
(* PersonaPlexClient driven directly through connect(), send_audio() and
   close(): one caller makes the calls one after another, and a second task
   may call send_audio while connect() waits *)

\* the state after PersonaPlexClient.__init__ (client.py:24-29)
InitClient ==
    /\ pc = "idle" /\ stack = <<>> /\ call = "none" /\ raised = "ok"
    /\ start_error = "none" /\ starts = 0 /\ stop_completed = FALSE
    /\ elapsed = 0
    /\ personaplex = TRUE
    /\ tasks = [t \in Loops |-> "None"]
    /\ text_pc = "get" /\ text_buffer = <<>>
    /\ input_queue = <<>> /\ output_queue = <<>>
    /\ last_opus = None /\ playback_buffer = 0
    /\ recv_todo = <<>> /\ recv_pc = "get"
    /\ recv_clean = TRUE /\ recv_before = <<>> /\ recv_data = 0
    /\ sink_pc = "idle" /\ sink_data = 0
    /\ sink_clean = TRUE /\ sink_before = <<>>
    /\ recording = FALSE /\ playing = FALSE
    /\ channel_ok = TRUE /\ sent = <<>>
    /\ writes_left = MaxWrites /\ next_frame = 1
    /\ ws_ref = FALSE /\ ws_state = "absent"
    /\ session_ref = FALSE /\ session_state = "absent"
    /\ receive_task = "None" /\ rx_pending = NoItem
    /\ audio_queue = <<>> /\ text_queue = <<>>
    /\ inbound_left = MaxInbound
    /\ first_message = NoMessage
    /\ wire = <<>> /\ send_result = NoSend /\ sends_left = MaxSends
    /\ errors_left = MaxConvertErrors
    /\ buffer_content = <<>> /\ chunks = <<>> /\ returned = <<>>
    /\ stereo_total = 0 /\ calls_left = MaxCalls
    /\ wire_message = <<>> /\ opus_in = <<>> /\ origin = "none"
    /\ decoded = NotDecoded
    /\ inbound_log = NoLog /\ send_iter = NoIter
    /\ BotInit

\* connect() is called on a client that holds no connection: client.py:49-53,
\* the ClientSession is made and ws_connect awaited
ConnectCall ==
    /\ pc = "idle" /\ starts < MaxStarts
    /\ ~ws_ref /\ session_state # "open"
    /\ pc' = "ws_connect"
    /\ call' = "connect" /\ raised' = "" /\ start_error' = "none"
    /\ starts' = starts + 1 /\ elapsed' = 0
    /\ session_ref' = TRUE /\ session_state' = "open"
    /\ first_message' = NoMessage
    /\ wire' = <<>>
    /\ UNCHANGED <<botVars, send_iter, protoVars, rebufVars, errors_left, inbound_log, send_result, sends_left, stack, stop_completed,
                   personaplex, tasks, textVars, audioVars, voiceVars,
                   chanVars, ws_ref, ws_state, rxVars>>

\* client.py:73, connect() returns to the driver
ConnectReturns ==
    /\ pc = "start_recording"
    /\ pc' = "idle" /\ raised' = "ok"
    /\ UNCHANGED <<botVars, send_iter, protoVars, rebufVars, errors_left, inbound_log, sendVars, first_message, stack, call, start_error,
                   starts, stop_completed, elapsed, personaplex, tasks,
                   textVars, audioVars, voiceVars, chanVars, connVars, rxVars>>

\* client.py:53, 59, 61, 63, 70: what connect() raised reaches the driver
ConnectRaises ==
    /\ pc = "except"
    /\ pc' = "idle" /\ raised' = start_error
    /\ UNCHANGED <<botVars, send_iter, protoVars, rebufVars, errors_left, inbound_log, sendVars, first_message, stack, call, start_error,
                   starts, stop_completed, elapsed, personaplex, tasks,
                   textVars, audioVars, voiceVars, chanVars, connVars, rxVars>>

CloseCalls == {"close", "close_again"}

\* close() is called by the driver
CloseCall ==
    /\ pc = "idle"
    /\ call' = IF call \in CloseCalls /\ raised = "ok" THEN "close_again"
               ELSE "close"
    /\ raised' = ""
    /\ pc' = "close_cancel"
    /\ stack' = <<"close_end">>
    /\ UNCHANGED <<botVars, send_iter, protoVars, rebufVars, errors_left, inbound_log, sendVars, first_message, start_error, starts,
                   stop_completed, elapsed, personaplex, tasks, textVars,
                   audioVars, voiceVars, chanVars, connVars, rxVars>>

\* client.py:141, close() returns to the driver
CloseEnd ==
    /\ pc = "close_end"
    /\ pc' = "idle" /\ raised' = "ok"
    /\ UNCHANGED <<botVars, send_iter, protoVars, rebufVars, errors_left, inbound_log, sendVars, first_message, stack, call, start_error,
                   starts, stop_completed, elapsed, personaplex, tasks,
                   textVars, audioVars, voiceVars, chanVars, connVars, rxVars>>

\* the chunks the driver sends
Chunks == { <<7>>, <<7, 8>> }

\* client.py:81-85: RuntimeError("Not connected") when self.ws is None;
\* else the encoded message is written, which a closed WebSocket refuses
\* with a connection error of its own
send_audio(opus_bytes) ==
    IF ~ws_ref THEN [raised |-> "NotConnected", written |-> <<>>]
    ELSE IF ws_state # "open"
         THEN [raised |-> "ConnectionReset", written |-> <<>>]
         ELSE [raised |-> "ok", written |-> <<encode_audio(opus_bytes)>>]

\* send_audio is called, by the driver between its other calls or by a
\* second task while connect() waits
SendAudio(opus_bytes) ==
    /\ pc \in {"idle", "handshake"}
    /\ sends_left > 0
    /\ sends_left' = sends_left - 1
    /\ send_result' = [chunk |-> opus_bytes,
                       raised |-> send_audio(opus_bytes).raised]
    /\ wire' = wire \o send_audio(opus_bytes).written
    /\ UNCHANGED <<botVars, send_iter, protoVars, rebufVars, errors_left, inbound_log, first_message, callVars, personaplex, tasks,
                   textVars, audioVars, voiceVars, chanVars, connVars, rxVars>>

\* what the remote peer sends to a connected client
ClientMessages ==
    { [type |-> "BINARY", data |-> <<AUDIO, 7>>],
      [type |-> "CLOSE", data |-> <<>>],
      [type |-> "ERROR", data |-> <<>>] }

NextClient ==
    \/ ConnectCall \/ WsConnectOk \/ WsConnectFail
    \/ HandshakeTick \/ HandshakeTimeout \/ ConnectRaise
    \/ \E m \in FirstMessages : HandshakeRecv(m)
    \/ ConnectReturns \/ ConnectRaises
    \/ CloseCall \/ CloseCancel \/ CloseAwait \/ CloseWs \/ CloseSession
    \/ CloseEnd
    \/ \E c \in Chunks : SendAudio(c)
    \/ \E m \in ClientMessages : ReceiveLoopMsg(m)
    \/ ReceiveLoopCancelled

SpecClient == InitClient /\ [][NextClient]_vars

----------------------------------------------------------------------------
(* on_voice_state_update (bot/client.py:58-134).  discord.py runs the handler
   of each event as a task of its own; a handler gives up control at its
   awaits.  Each guild has one voice channel and one member who is not a
   bot. *)

\* a session whose loops were launched and have not all ended
Running(i) == \E t \in Loops : bot_tasks[i][t] \in {"running", "cancelling"}

\* bot/client.py:71-87: the member joins; the handler runs up to its first
\* await.  channel.connect() registers the guild's voice client when it is
\* called, before it waits for the voice handshake
Join(g) ==
    /\ ~present[g]
    /\ join_pc[g] = "idle"
    /\ present' = [present EXCEPT ![g] = TRUE]
    /\ IF voice_client[g] \/ active_session # 0
         THEN UNCHANGED <<voice_client, join_pc>>
         ELSE /\ voice_client' = [voice_client EXCEPT ![g] = TRUE]
              /\ join_pc' = [join_pc EXCEPT ![g] = "connecting"]
    /\ UNCHANGED <<active_session, bot_tasks, next_session, join_session,
                   leave_pc, leave_session, sessVars>>

\* bot/client.py:87-112: connect() returned; the session is made, stored in
\* bot.active_session and started: start() runs up to its first await
JoinConnected(g) ==
    /\ join_pc[g] = "connecting"
    /\ next_session <= MaxSessions
    /\ active_session' = next_session
    /\ join_session' = [join_session EXCEPT ![g] = next_session]
    /\ next_session' = next_session + 1
    /\ join_pc' = [join_pc EXCEPT ![g] = "starting"]
    /\ UNCHANGED <<present, voice_client, bot_tasks, leave_pc, leave_session,
                   sessVars>>

\* bot/client.py:87, 114-118: connect() raised; the handler clears
\* bot.active_session and the voice client is gone
JoinConnectFail(g) ==
    /\ join_pc[g] = "connecting"
    /\ active_session' = 0
    /\ voice_client' = [voice_client EXCEPT ![g] = FALSE]
    /\ join_pc' = [join_pc EXCEPT ![g] = "idle"]
    /\ join_session' = [join_session EXCEPT ![g] = 0]
    /\ UNCHANGED <<present, bot_tasks, next_session, leave_pc,
                   leave_session, sessVars>>

\* bot/client.py:112 with session.py:92-101: start() returned, the three
\* loops are launched
JoinStartOk(g) ==
    /\ join_pc[g] = "starting"
    /\ bot_tasks' = [bot_tasks EXCEPT ![join_session[g]] =
                        [t \in Loops |-> "running"]]
    /\ join_pc' = [join_pc EXCEPT ![g] = "idle"]
    /\ join_session' = [join_session EXCEPT ![g] = 0]
    /\ UNCHANGED <<present, voice_client, active_session, next_session,
                   leave_pc, leave_session, sessVars>>

\* bot/client.py:112-118: start() raised, with no loop running; the handler
\* clears bot.active_session and disconnects the guild's voice client
JoinStartFail(g) ==
    /\ join_pc[g] = "starting"
    /\ active_session' = 0
    /\ voice_client' = [voice_client EXCEPT ![g] = FALSE]
    /\ join_pc' = [join_pc EXCEPT ![g] = "idle"]
    /\ join_session' = [join_session EXCEPT ![g] = 0]
    /\ UNCHANGED <<present, bot_tasks, next_session, leave_pc,
                   leave_session, sessVars>>

\* bot/client.py:121-134 up to the first await: the member leaves and the
\* channel is empty.  stop() of the session in bot.active_session cancels its
\* tasks and calls gather, whose TypeError ends the handler
Leave(g) ==
    /\ present[g]
    /\ leave_pc[g] = "idle"
    /\ present' = [present EXCEPT ![g] = FALSE]
    /\ IF ~voice_client[g]
         THEN UNCHANGED <<voice_client, bot_tasks, leave_pc, leave_session>>
         ELSE IF active_session = 0
           THEN /\ voice_client' = [voice_client EXCEPT ![g] = FALSE]
                /\ UNCHANGED <<bot_tasks, leave_pc, leave_session>>
           ELSE /\ bot_tasks' = [bot_tasks EXCEPT ![active_session] =
                                    CancelAll(bot_tasks[active_session])]
                /\ IF GatherAccepts(bot_tasks[active_session])
                     THEN /\ leave_pc' = [leave_pc EXCEPT ![g] = "stopping"]
                          /\ leave_session' =
                               [leave_session EXCEPT ![g] = active_session]
                     ELSE UNCHANGED <<leave_pc, leave_session>>
                /\ UNCHANGED voice_client
    /\ UNCHANGED <<active_session, next_session, join_pc, join_session,
                   sessVars>>

\* session.py:168-169, 202-203, 229-232: the cancelled loops of a session end
LoopsCancelled(i) ==
    /\ \E t \in Loops : bot_tasks[i][t] = "cancelling"
    /\ bot_tasks' = [bot_tasks EXCEPT ![i] =
                        [t \in Loops |-> IF @[t] = "cancelling" THEN "done"
                                                                ELSE @[t]]]
    /\ UNCHANGED <<present, voice_client, active_session, next_session,
                   join_pc, join_session, leave_pc, leave_session, sessVars>>

\* bot/client.py:131-134: stop() returned; bot.active_session is cleared and
\* the voice client disconnected
LeaveStopped(g) ==
    /\ leave_pc[g] = "stopping"
    /\ GatherReturns(bot_tasks[leave_session[g]])
    /\ active_session' = 0
    /\ voice_client' = [voice_client EXCEPT ![g] = FALSE]
    /\ leave_pc' = [leave_pc EXCEPT ![g] = "idle"]
    /\ leave_session' = [leave_session EXCEPT ![g] = 0]
    /\ UNCHANGED <<present, bot_tasks, next_session, join_pc, join_session,
                   sessVars>>

NextBot ==
    \/ \E g \in Guilds : Join(g)
    \/ \E g \in Guilds : JoinConnected(g)
    \/ \E g \in Guilds : JoinConnectFail(g)
    \/ \E g \in Guilds : JoinStartOk(g)
    \/ \E g \in Guilds : JoinStartFail(g)
    \/ \E g \in Guilds : Leave(g)
    \/ \E i \in Sessions : LoopsCancelled(i)
    \/ \E g \in Guilds : LeaveStopped(g)

SpecBot == Init /\ [][NextBot]_vars

----------------------------------------------------------------------------
(* Claims about the lifecycle, checked under Spec *)

NoLoopRunning == \A t \in Loops : tasks[t] \in {"None", "done"}
AllLoopsDone == \A t \in Loops : tasks[t] = "done"
LocalIOStopped == ~recording /\ ~playing
ClientClosed ==
    /\ ws_state # "open" /\ session_state # "open"
    /\ ~ws_ref /\ ~session_ref
    /\ receive_task \in {"None", "done"}
InClose == pc \in {"close_cancel", "close_await", "close_ws", "close_session"}
StartReturned == pc = "idle" /\ call = "start"
StopReturned == pc = "idle" /\ call \in StopCalls

\* C1: when start() has failed and returned, no loop is running, recording
\* and playback are stopped, the client's connection is closed, and the
\* error the caller observes is the original start failure.
C1_StartFailureTearsDown ==
    (StartReturned /\ start_error # "none") =>
        /\ NoLoopRunning
        /\ LocalIOStopped
        /\ ws_state # "open"
        /\ raised = start_error

\* C2: stop() never raises, whatever the state of the session it is called
\* on (never started and failed before the tasks were created included).
C2_StopNeverRaises == StopReturned => raised = "ok"

\* C3: stop() on an active session ends with the three loops terminated,
\* recording and playback stopped and the client closed; cancellation is
\* requested for all three loops before stop() waits, every loop has
\* terminated before recording or playback is stopped, and the client is
\* closed only after both are stopped.
C3_StopState ==
    /\ pc = "stop_gather" => \A t \in Loops : tasks[t] \in {"cancelling", "done"}
    /\ pc = "stop_io" => AllLoopsDone
    /\ (InClose /\ Head(stack) = "stop_end") => AllLoopsDone /\ LocalIOStopped
    /\ pc = "stop_end" => AllLoopsDone /\ LocalIOStopped /\ ClientClosed
    /\ (StopReturned /\ raised = "ok") =>
           AllLoopsDone /\ LocalIOStopped /\ ClientClosed

C3_StopOrder ==
    /\ (recording /\ ~recording') \/ (playing /\ ~playing') => AllLoopsDone
    /\ (pc = "stop_cancel" /\ pc' = "stop_gather") =>
           \A t \in Loops : tasks'[t] \in {"cancelling", "done"}
    /\ (ws_ref /\ ~ws_ref' /\ Head(stack) = "stop_end") => LocalIOStopped

C3_StopTearsDownInOrder == []C3_StopState /\ [][C3_StopOrder]_vars

\* a stop() of a session that start() had made active has returned
C3_Witness ==
    /\ StopReturned /\ raised = "ok"
    /\ \E i \in 1..Len(sent) : sent[i].kind = "started"
    /\ ws_state = "closed" /\ AllLoopsDone

\* C4: a stop() straight after a stop() that returned is a no-op: it does not
\* raise, and no step of it changes the tasks, the queues, the text buffer,
\* the client, the voice client or what was sent to the text channel.
C4_SessionState ==
    <<personaplex, tasks, textVars, input_queue, output_queue, last_opus,
      playback_buffer, recvVars, recording, playing, sent, connVars,
      receive_task, rx_pending, audio_queue, text_queue>>

C4_SecondStopIsNoOp ==
    /\ [](StopReturned /\ call = "stop_again" => raised = "ok")
    /\ [][call' = "stop_again" => UNCHANGED C4_SessionState]_vars

\* the second stop() of a session that had been active has returned
C4_Witness ==
    /\ pc = "idle" /\ call = "stop_again" /\ raised = "ok"
    /\ \E i \in 1..Len(sent) : sent[i].kind = "started"

\* C5: once a stop() has completed, no start() brings the session back to
\* Active: no loop runs and no connection is open again.
C5_NoReentryAfterStop ==
    stop_completed => NoLoopRunning /\ ws_state # "open"

\* C10: when connect() raises the handshake timeout, 60 time units have
\* passed without a message, the WebSocket and the HTTP session are closed,
\* the client holds no reference to either, and no receive loop was started.
C10_TimeoutClosesConnection ==
    (pc = "connect_raise" \/ start_error = "HandshakeTimeout") =>
        /\ elapsed = HANDSHAKE_TIMEOUT
        /\ ws_state = "closed" /\ session_state = "closed"
        /\ ~ws_ref /\ ~session_ref
        /\ receive_task = "None"

\* connect() is about to raise the timeout, after close() has returned
C10_Witness ==
    /\ pc = "connect_raise" /\ elapsed = HANDSHAKE_TIMEOUT
    /\ ws_state = "closed" /\ session_state = "closed"

----------------------------------------------------------------------------
(* Claims about the bot, checked under SpecBot *)

\* C6: at most one VoiceSession is started and not stopped at any time,
\* whichever way the voice-state events of several guilds interleave, and
\* bot.active_session refers to it
C6_SingleActiveSession ==
    /\ Cardinality({i \in Sessions : Running(i)}) <= 1
    /\ \A i \in Sessions : Running(i) => active_session = i

----------------------------------------------------------------------------
(* Claims about the queues of an Active session, checked under SpecQueues
   and SpecRelay *)

\* C7: the client's receive loop never waits for ever in a put: a payload
\* it routed to a full queue is queued in the end, so that the loop goes on
\* to the next inbound message
C7_ReceiveLoopNeverStuck == (rx_pending # NoItem) ~> (rx_pending = NoItem)

\* C8: each bounded queue holds at most its capacity in every reachable
\* state
C8_QueuesWithinCapacity ==
    /\ Len(input_queue) <= InputQueueMaxsize
    /\ Len(output_queue) <= OutputQueueMaxsize
    /\ Len(audio_queue) <= AudioQueueMaxsize
    /\ Len(text_queue) <= TextQueueMaxsize

\* a write of the sink and a push of the receive loop have both found
\* their queue full
C8_Witness ==
    /\ sink_pc = "drop_get" /\ full(input_queue, InputQueueMaxsize)
    /\ recv_pc = "drop_get" /\ full(output_queue, OutputQueueMaxsize)

\* the queue a completed push leaves when no consumer ran meanwhile
Pushed(before, maxsize, x) ==
    IF full(before, maxsize) THEN Append(Tail(before), x)
    ELSE Append(before, x)

SinkPushDone == sink_pc = "idle" /\ sink_data # 0 /\ sink_clean
RecvPushDone == recv_pc \in {"put", "get"} /\ recv_data # 0 /\ recv_clean

\* C9: a push onto a full input or output queue, with no consumer running
\* in between, evicts the single oldest item and appends the new one, the
\* others keeping their order; a push onto a queue that is not full appends
\* and evicts nothing
C9_DropOldest ==
    /\ SinkPushDone =>
         input_queue = Pushed(sink_before, InputQueueMaxsize, sink_data)
    /\ RecvPushDone =>
         output_queue = Pushed(recv_before, OutputQueueMaxsize, recv_data)

\* both pushes were onto a full queue
C9_Witness ==
    /\ SinkPushDone /\ full(sink_before, InputQueueMaxsize)
    /\ RecvPushDone /\ full(recv_before, OutputQueueMaxsize)

----------------------------------------------------------------------------
(* Claims about the remote client, checked under Spec *)

\* a binary message whose tag is Handshake
IsHandshake(m) == m.type = "BINARY" /\ Len(m.data) >= 1 /\ m.data[1] = HANDSHAKE

\* the errors connect() raises
ConnectErrors ==
    {"ClientError", "NotBinary", "ValueError", "NotHandshake", "HandshakeTimeout"}

C11_State ==
    /\ receive_task # "None" => IsHandshake(first_message)
    /\ IsHandshake(first_message) =>
         receive_task # "None" /\ start_error \notin ConnectErrors
    /\ (first_message # NoMessage /\ ~IsHandshake(first_message)) =>
         start_error \in ConnectErrors /\ receive_task = "None"
    /\ start_error \in {"ClientError", "HandshakeTimeout"} =>
         first_message = NoMessage /\ receive_task = "None"
    /\ pc = "connect_raise" => first_message = NoMessage /\ receive_task = "None"

C11_Step ==
    (pc = "handshake" /\ pc' # "handshake") =>
        IF IsHandshake(first_message')
        THEN /\ elapsed < HANDSHAKE_TIMEOUT
             /\ pc' = "start_recording"
             /\ receive_task' = "running"
             /\ ws_ref' /\ ws_state' = "open"
        ELSE /\ pc' \in {"except", "close_cancel"}
             /\ receive_task' = "None"

\* C11: connect() returns, with the receive loop started and the client
\* connected, exactly when the first message is a binary message tagged
\* Handshake that arrives before the timeout; in every other outcome it
\* raises and the receive loop is never started
C11_ConnectIffHandshake == []C11_State /\ [][C11_Step]_vars

\* connect() has just returned
C11_Witness ==
    /\ pc = "start_recording" /\ IsHandshake(first_message)
    /\ receive_task = "running"

----------------------------------------------------------------------------
(* Claims about the remote client driven directly, checked under
   SpecClient *)

\* a call of send_audio
SendStep == sends_left' # sends_left

\* connect() has succeeded and neither side has closed since
Connected == ws_ref /\ ws_state = "open" /\ receive_task = "running"

\* before connect() or after close(), or while connect() waits for the
\* handshake
NotYetOrNoLongerConnected == ~ws_ref \/ pc = "handshake"

\* C12: send_audio writes exactly one message, the Audio tag followed by the
\* chunk, when the client is Connected; before connect(), while connect()
\* waits for the handshake and after close() it fails with the
\* not-connected error and writes nothing
C12_SendAudioRequiresConnected ==
    [][SendStep =>
         /\ Connected =>
              /\ wire' = Append(wire, <<AUDIO>> \o send_result'.chunk)
              /\ send_result'.raised = "ok"
         /\ NotYetOrNoLongerConnected =>
              /\ wire' = wire
              /\ send_result'.raised = "NotConnected"]_vars

\* the receive loop of a connected client has ended on an ERROR, CLOSE or
\* CLOSED message, and close() was not called since
LoopEndedByPeer ==
    /\ pc = "idle" /\ IsHandshake(first_message)
    /\ receive_task = "done" /\ ws_ref

\* C13: once the receive loop has ended on a connection error or a close of
\* the server, the client no longer counts as connected: send_audio fails
\* with the not-connected error and writes nothing
C13_LoopEndMarksClosed ==
    [][(SendStep /\ LoopEndedByPeer) =>
         /\ send_result'.raised = "NotConnected"
         /\ wire' = wire]_vars

C14_ClientState ==
    <<ws_ref, ws_state, session_ref, session_state, receive_task, rx_pending,
      audio_queue, text_queue>>

\* C14: close() is safe in every state of the client (never connected,
\* waiting for the handshake, Connected, receive loop ended, closed): it
\* returns normally, leaving the receive loop ended, the WebSocket and the
\* ClientSession closed and both references cleared; a second close()
\* changes nothing
C14_CloseSafeAndIdempotent ==
    /\ []((pc = "idle" /\ call \in CloseCalls) => raised = "ok" /\ ClientClosed)
    /\ [][(pc = "close_session" /\ pc' # "close_session") => ClientClosed']_vars
    /\ [][call' = "close_again" => UNCHANGED C14_ClientState]_vars

\* a client that was Connected has been closed twice
C14_Witness ==
    /\ pc = "idle" /\ call = "close_again" /\ raised = "ok"
    /\ IsHandshake(first_message) /\ receive_task = "done"

----------------------------------------------------------------------------
(* Claims about the routing of inbound messages, checked under SpecRoute *)

\* a binary message with the given tag and at least the tag byte
HasTag(m, tag) == m.type = "BINARY" /\ Len(m.data) >= 1 /\ m.data[1] = tag

\* Text bytes that are UTF-8 (the model's bytes below 0x80 are, 0xFF is not)
ValidText(m) == HasTag(m, TEXT) /\ \A i \in 2..Len(m.data) : m.data[i] < 128

\* the payloads of the Audio messages among msgs, in order
RECURSIVE AudioPayloads(_)
AudioPayloads(msgs) ==
    IF msgs = <<>> THEN <<>>
    ELSE (IF HasTag(Head(msgs), AUDIO) THEN <<Tail(Head(msgs).data)>> ELSE <<>>)
         \o AudioPayloads(Tail(msgs))

\* the payloads of the valid Text messages among msgs, in order
RECURSIVE TextPayloads(_)
TextPayloads(msgs) ==
    IF msgs = <<>> THEN <<>>
    ELSE (IF ValidText(Head(msgs)) THEN <<Tail(Head(msgs).data)>> ELSE <<>>)
         \o TextPayloads(Tail(msgs))

\* the item a put of the receive loop is waiting with, for queue q
Waiting(q) == IF rx_pending.q = q THEN <<rx_pending.item>> ELSE <<>>

\* C15: the receive loop queues every Audio payload and every decoded Text
\* payload in arrival order; an empty message, an unknown tag, Text that is
\* not UTF-8 and a Handshake queue nothing and do not end the loop, the
\* valid messages after them being routed still
C15_RoutesInOrder ==
    inbound_log.on =>
        /\ audio_queue \o Waiting("audio") = AudioPayloads(inbound_log.msgs)
        /\ text_queue \o Waiting("text") = TextPayloads(inbound_log.msgs)
        /\ receive_task = "running"

\* a malformed message was followed by an Audio and a Text message, both
\* queued
C15_Witness ==
    /\ inbound_log.on /\ Len(inbound_log.msgs) = 3
    /\ inbound_log.msgs[1].data = <<255>>
    /\ audio_queue = <<<<8>>>> /\ text_queue = <<BytesA>>

----------------------------------------------------------------------------
(* Claims about failures of the converter, checked under SpecConvert *)

\* C16: a failure inside the converter, in either direction, is not
\* propagated and ends no loop: the call gives no output (nothing new to
\* send, no frame to queue), no status message is sent, and the loop is at
\* its next iteration
C16_ConverterFailureContained ==
    [][errors_left' # errors_left =>
         /\ tasks' = tasks
         /\ sent' = sent
         /\ last_opus' = last_opus
         /\ output_queue' = output_queue
         /\ audio_queue' # audio_queue =>
                recv_todo' = <<>> /\ recv_pc' = "get"]_vars

\* the converter has failed twice and both loops have worked since
C16_Witness ==
    /\ errors_left = 0
    /\ \A t \in Loops : tasks[t] = "running"
    /\ last_opus = <<-MaxWrites>> /\ Len(output_queue) = OutputQueueMaxsize

----------------------------------------------------------------------------
(* Claims about the status messages, checked under Spec *)

\* start() leaves with an error in this step
StartFailedStep ==
    pc # "idle" /\ pc' = "idle" /\ call = "start" /\ raised' # "ok"

\* loop t ends in this step by an exception of its own, not by a cancel
LoopDiedStep(t) == tasks[t] = "running" /\ tasks'[t] = "done"

----------------------------------------------------------------------------
(* Claims about the rebuffering, checked under SpecRebuffer *)

\* the arrays of a list, one after the other
RECURSIVE Flat(_)
Flat(frames) == IF frames = <<>> THEN <<>> ELSE Head(frames) \o Flat(Tail(frames))

\* bytes in an array
ByteLen(a) == BytesPerSample * ArrayLen(a)

\* C18: every frame returned has exactly 3840 bytes; a call returns
\* floor((bytes buffered + bytes made) / 3840) frames; fewer than 3840 bytes
\* stay buffered after every call; and the frames returned so far followed
\* by the buffer are the stereo made so far, in order
C18_State ==
    /\ \A i \in 1..Len(returned) : ByteLen(returned[i]) = 3840
    /\ ByteLen(buffer_content) < 3840
    /\ Joined(Flat(returned) \o buffer_content)
           = stereo(0, stereo_total)

C18_Step ==
    calls_left' # calls_left =>
        Len(chunks') =
            (ByteLen(buffer_content)
                 + BytesPerSample * (stereo_total' - stereo_total)) \div 3840

C18_Rebuffering == []C18_State /\ [][C18_Step]_vars

\* a call has returned two frames at once, after earlier frames, and
\* leaves buffered a part of a frame that is not half a frame
C18_Witness ==
    /\ Len(chunks) = 2 /\ Len(returned) > 2
    /\ buffer_content # <<>>
    /\ ArrayLen(buffer_content) % (chunk_size \div 2) # 0

----------------------------------------------------------------------------
(* Claims about the wire protocol, checked under SpecProtocol *)

\* decode_message has been applied to the bytes encode_audio returned
RoundTripDone == origin = "encoded" /\ decoded # NotDecoded

C20_DecodeTotalOnTags ==
    decoded # NotDecoded =>
        /\ ~decoded.ok <=>
               (wire_message = <<>> \/ wire_message[1] \notin {0, 1, 2})
        /\ decoded.ok =>
               /\ decoded.type = wire_message[1]
               /\ <<decoded.type>> \o decoded.payload = wire_message

\* a one-byte message was decoded to a tag with the empty payload
C20_Witness ==
    /\ origin = "received" /\ decoded.ok
    /\ Len(wire_message) = 1 /\ decoded.payload = <<>>

----------------------------------------------------------------------------
(* Claims about the iterations of the send loop, checked under SpecSend *)

\* this step is an iteration of the send loop
SendIterStep == send_iter'.tick # send_iter.tick

\* bytes of SILENCE_FRAME (session.py:18)
SilenceBytes == DISCORD_FRAME_SAMPLES * DISCORD_CHANNELS * BytesPerSample

\* C21: in every iteration of the send loop, when the wait for a frame times
\* out the converter is handed the silence frame, of 3840 zero bytes; when
\* a frame was there the converter is handed the head of the input queue,
\* and that frame is removed from the queue
C21_SilenceOrHead ==
    [][SendIterStep =>
         /\ SilenceBytes = 3840
         /\ IF input_queue = <<>>
            THEN /\ send_iter'.pcm_bytes = SILENCE_FRAME
                 /\ input_queue' = <<>>
            ELSE /\ send_iter'.pcm_bytes = input_queue[1]
                 /\ input_queue' = Tail(input_queue)]_vars

\* silence was handed to the converter after a captured frame had been
C21_Witness ==
    /\ send_iter.pcm_bytes = SILENCE_FRAME
    /\ last_opus # None /\ last_opus # <<SILENCE_FRAME>>
    /\ writes_left = 0 /\ input_queue = <<>>

\* C22: in every iteration of the send loop that send_audio lets finish,
\* output of the converter is sent as it is and remembered; with no output,
\* the most recent output of an earlier iteration is sent again unchanged,
\* and nothing is sent if there was none.  So every iteration after the
\* first output sends one audio message
C22_SendOrResend ==
    [][SendIterStep /\ tasks'["send"] = "running" =>
         LET opus == send_iter'.opus_bytes
             written == send_iter'.written
         IN /\ opus # <<>> => written = opus /\ last_opus' = opus
            /\ opus = <<>> /\ last_opus # <<>> =>
                   written = last_opus /\ last_opus' = last_opus
            /\ opus = <<>> /\ last_opus = <<>> =>
                   written = <<>> /\ last_opus' = <<>>
            /\ last_opus # <<>> => written # <<>>]_vars

\* the converter gave no output and the output of an earlier iteration
\* was sent again
C22_Witness ==
    /\ send_iter.tick /\ tasks["send"] = "running"
    /\ send_iter.opus_bytes = <<>>
    /\ send_iter.written # <<>> /\ send_iter.written = last_opus

----------------------------------------------------------------------------
(* Claims about the flushes of the text loop, checked under SpecWords and
   SpecLetters *)

\* the text loop takes a fragment from the text queue in this step
TakeStep ==
    /\ tasks["text"] = "running" /\ text_pc = "get"
    /\ text_queue # <<>> /\ text_queue' = Tail(text_queue)

\* the send of a flush completes in this step
FlushSentStep ==
    tasks["text"] = "running" /\ text_pc = "send" /\ text_pc' = "get"

\* C23 as stated: when the fragment "hello " is received into an empty
\* buffer, the buffer is flushed at once with the content "hello"
C23_HelloSpaceFlushes ==
    [][TakeStep /\ text_queue[1] = BytesHelloSpace /\ text_buffer = <<>> =>
         text_pc' = "send" /\ strip(text_buffer') = BytesHello]_vars

\* C23 as amended: when a fragment of whitespace alone is received into a
\* buffer holding "hello", the buffer is flushed at once, "hello" is
\* emitted and the buffer is left empty; the fragment "hello " received into
\* an empty buffer causes no flush and stays in the buffer
C23_WhitespaceFragmentFlushes ==
    [][/\ TakeStep /\ text_queue[1] = BytesSpace /\ text_buffer = BytesHello =>
              text_pc' = "send" /\ text_buffer' = BytesHelloSpace
       /\ FlushSentStep /\ text_buffer = BytesHelloSpace =>
              /\ sent' = Append(sent, [kind |-> "ai", text |-> BytesHello])
              /\ text_buffer' = <<>>
       /\ TakeStep /\ text_queue[1] = BytesHelloSpace /\ text_buffer = <<>> =>
              /\ text_pc' = "get" /\ text_buffer' = BytesHelloSpace
              /\ sent' = sent]_vars

\* "hello" was flushed by a fragment of whitespace, and a later "hello "
\* is in the buffer with no flush
C23_Witness ==
    /\ Len(sent) = 2 /\ sent[2] = [kind |-> "ai", text |-> BytesHello]
    /\ text_buffer = BytesHelloSpace /\ text_pc = "get"
    /\ text_queue = <<>> /\ inbound_left = 0

\* the relayed messages among those sent
AiTexts == SelectSeq(sent, LAMBDA msg : msg.kind = "ai")

\* fragments the text loop has taken
Taken == LettersInbound - inbound_left - Len(text_queue)
             - (IF rx_pending = NoItem THEN 0 ELSE 1)

\* the characters from the i-th to the j-th
Letters(i, j) == [k \in 1..(j - i + 1) |-> Letter(i + k - 1)]

\* C24: single characters that are no whitespace, fed from an empty buffer,
\* are flushed exactly when the buffer reaches 50 characters, those 50 in
\* order in one message, and the next fragment starts a new buffer; so 51
\* fragments cause exactly one flush and leave the 51st alone in the buffer
C24_FlushAtFifty ==
    /\ Taken < 50 => AiTexts = <<>> /\ text_buffer = Letters(1, Taken)
    /\ Taken = 50 /\ text_pc = "send" =>
           AiTexts = <<>> /\ text_buffer = Letters(1, 50)
    /\ Taken >= 50 /\ text_pc = "get" =>
           /\ AiTexts = <<[kind |-> "ai", text |-> Letters(1, 50)]>>
           /\ text_buffer = Letters(51, Taken)

\* 51 fragments are taken: one flush, and the 51st alone in the buffer
C24_Witness ==
    /\ Taken = 51 /\ Len(AiTexts) = 1
    /\ text_buffer = <<Letter(51)>>

----------------------------------------------------------------------------
(* Claims about the cancellation of the loops, checked under Spec *)

\* loop t ends in this step at its cancellation
CancelledStep(t) == tasks[t] = "cancelling" /\ tasks'[t] = "done"

\* the messages this step adds to the text channel
NewlySent == SubSeq(sent', Len(sent) + 1, Len(sent'))

\* C25: while the text channel accepts messages, the text loop at its
\* cancellation ends with exactly one last message holding the buffered
\* text when the buffer holds text that is not blank (the only other message
\* of the step can be that of a send the cancellation found in flight), and
\* with no message when the buffer is blank; the send loop and the receive
\* loop send and queue nothing at their cancellation
C25_FlushOnCancel ==
    [][/\ CancelledStep("text") /\ channel_ok =>
              IF strip(text_buffer) # <<>>
              THEN /\ Len(NewlySent) >= 1
                   /\ NewlySent[Len(NewlySent)]
                          = [kind |-> "ai", text |-> strip(text_buffer)]
                   /\ Len(NewlySent) <= (IF text_pc = "send" THEN 2 ELSE 1)
              ELSE sent' = sent
       /\ CancelledStep("send") \/ CancelledStep("recv") =>
              /\ sent' = sent
              /\ output_queue' = output_queue /\ last_opus' = last_opus
              /\ text_buffer' = text_buffer]_vars

\* stop() has returned, the text loop having been cancelled at its get with
\* text in the buffer, which was its last message
C25_Witness ==
    /\ StopReturned /\ raised = "ok"
    /\ tasks["text"] = "done" /\ text_pc = "get"
    /\ strip(text_buffer) # <<>>
    /\ sent[Len(sent)] = [kind |-> "ai", text |-> strip(text_buffer)]

\* C26: when an exception ends one of the three loops, the two others are
\* left as they are; the loop that ended is not started again except by a
\* start() of the caller; and no loop is cancelled but by stop()
C26_LoopFailureIsolated ==
    [][\A t \in Loops :
         /\ LoopDiedStep(t) => \A u \in Loops \ {t} : tasks'[u] = tasks[u]
         /\ tasks[t] = "done" /\ tasks'[t] # "done" =>
                call = "start" /\ pc # "idle"
         /\ tasks[t] = "running" /\ tasks'[t] = "cancelling" =>
                pc = "stop_cancel"]_vars

\* the send loop has ended with its status message and the two other loops
\* run on, no call being in progress
C26_Witness ==
    /\ pc = "idle" /\ call = "start"
    /\ tasks = [t \in Loops |-> IF t = "send" THEN "done" ELSE "running"]
    /\ sent[Len(sent)].kind = "send_error"
    /\ text_buffer # <<>>

----------------------------------------------------------------------------
(* Claims about a failed connect(), checked under SpecClient *)

\* the errors connect() raises once the connection is open
HandshakeErrors == {"NotBinary", "ValueError", "NotHandshake", "HandshakeTimeout"}

\* C27: whenever connect() has raised after the connection was opened, for
\* a timeout or for a first message that is not binary, has another tag
\* than Handshake, is empty or has an unknown tag, the WebSocket and the
\* HTTP session are closed when connect() has returned
C27_FailedConnectClosesAll ==
    (pc = "idle" /\ call = "connect" /\ raised \in HandshakeErrors) =>
        ws_state # "open" /\ session_state # "open"

----------------------------------------------------------------------------
(* Claims about the text relayed up to a stop(), checked under
   SpecLettersStop *)

\* the text of the relayed messages, one after the other
RECURSIVE RelayedText(_)
RelayedText(msgs) ==
    IF msgs = <<>> THEN <<>> ELSE Head(msgs).text \o RelayedText(Tail(msgs))

\* C28: every fragment taken from the text queue is emitted at most once,
\* wherever stop() cancels the text loop: the fragments being characters
\* that all differ, no character is found twice in the text relayed
C28_EmittedAtMostOnce ==
    LET text == RelayedText(AiTexts)
    IN \A i, j \in 1..Len(text) : i # j => text[i] # text[j]

----------------------------------------------------------------------------
(* Claims about the pushes racing with their consumers, checked under
   SpecQueues *)

\* frame x is in queue q
InQueue(q, x) == \E i \in 1..Len(q) : q[i] = x

\* StreamingSink.write returns in this step
SinkReturnsStep ==
    /\ sink_pc' = "idle"
    /\ sink_pc # "idle" \/ writes_left' # writes_left

\* the receive loop is done with the push of a frame in this step
RecvPushedStep ==
    /\ recv_pc \in {"put", "drop_get", "drop_put"}
    /\ Len(recv_todo') < Len(recv_todo)

\* C29: however the capture thread's write interleaves with the send loop
\* taking frames, and the receive loop's push with the playback thread's
\* read, the frame being pushed is not the one discarded: when the push
\* returns the frame is in the queue (no consumer can have taken it yet)
C29_PushKeepsNewFrame ==
    [][/\ SinkReturnsStep => InQueue(input_queue', sink_data')
       /\ RecvPushedStep => InQueue(output_queue', recv_todo[1])]_vars

====
